---- MODULE Spec2Model ----
(***************************************************************************)
(* A model of the botmerger dispatcher (src/botmerger/core.py), its        *)
(* in-memory object store (src/botmerger/mergers.py), the response stream  *)
(* and the single-turn context (src/botmerger/base.py).                    *)
(*                                                                         *)
(* Every coroutine is a process with a program counter.  A step of a       *)
(* process is one object-store access followed by the synchronous code     *)
(* that runs until the next access is issued: the store accesses are the   *)
(* suspension points, everything between two of them is atomic.            *)
(*                                                                         *)
(* SpecCache, SpecChain and SpecSeq let the turns interleave at every      *)
(* store access, as a store that suspends would.  SpecRelay and SpecLive   *)
(* are the dispatcher on InMemoryBotMerger, whose accesses never suspend:  *)
(* a turn runs from one await of its handler to the next without any other *)
(* coroutine in between, and the callers of the streams take their steps   *)
(* between the steps of the handlers.  SpecForward and SpecApi are on the   *)
(* in-memory store too; SpecApi adds the calls of the API a caller outside  *)
(* any handler makes, each awaited to its end.  SpecNested lets handlers    *)
(* trigger other bots and interleaves all turns at every store access.      *)
(* SpecCtx is the with statement on SingleTurnContext alone.                *)
(*                                                                         *)
(* The models are pydantic v1 models (Field(..., const=True)) with          *)
(* allow_mutation = False: an assignment to a field of one raises.          *)
(*                                                                         *)
(* SingleTurnContext.yield_response names the arguments of                 *)
(* create_next_message parent_context and responds_to, BotMergerBase names *)
(* them parent_ctx_msg_uuid and requesting_msg_uuid: the response is given *)
(* the parent context of the concluding request and the concluding request *)
(* as the message it responds to, as src/tests run it.                     *)
(***************************************************************************)
EXTENDS Integers, Sequences, FiniteSets, TLC

\* ------------------------------------------------------------------ bounds
MaxTasks == 2
MaxYields == 2
MaxConsumers == 2
MaxCalls == 2
MaxNested == 1
MaxTokens == 4
MaxReplays == 1
MaxCallers == 3

\* --------------------------------------------------------------- constants
None == 0
DEFAULT_USER_UUID == 1
DEFAULT_MSG_CTX_UUID == 2
CacheBot == 3
NoCacheBot == 4
Alice == 5
AliceChannel == 6
FirstFreshUuid == 7
KeyExistsError == 1
HandlerError == 2
StillThinkingError == 3
DEFAULT_USER_NAME == 1
AliceName == 2
ImmutableError == 4
BotAliasTakenError == 5
KeyError == 6
BothGivenError == 7
AlreadyUsedError == 8
LookupError == 9
OtherContextError == 10
NotFoundError == 11
NotSentToBotError == 12
WrongTypeError == 13

NewAlias == 1
OtherName == 3
NewHandler == 1
OtherAlias == 2
OtherHandler == 2

\* the asyncio task of the caller that is no handler
MainTask == 0

VARIABLES
    bots,                    \* _immutable_objects, the MergedBot entries
    single_turn_handlers,    \* _single_turn_handlers
    users,                   \* _immutable_objects, the MergedUser entries
    messages,                \* _immutable_objects, the MergedMessage entries
    latest_message_in_chat,  \* _mutable_objects, keys ("latest_message_in_chat", ...)
    bot_response_cache,      \* _mutable_objects, keys ("bot_response_cache", ...)
    default_user,            \* _default_user
    default_msg_ctx,         \* _default_msg_ctx
    tasks,                   \* the coroutines spawned by asyncio.create_task
    streams,                 \* the BotResponses objects
    error_wrappers,          \* the ErrorWrapper objects
    consumers,               \* the callers iterating the streams
    bot_by_alias,            \* _immutable_objects, keys ("bot_by_alias", alias)
    channel_by_type_and_id,  \* _immutable_objects, keys ("channel_by_type_and_id", ...)
    calls,                   \* what the calls of the API returned or raised to their callers
    callers,                 \* the coroutines of the calls of the API that suspend at the store
    _current_context,        \* SingleTurnContext._current_context, per asyncio task
    _previous_ctx_token,     \* SingleTurnContext._previous_ctx_token, per asyncio task
    tokens,                  \* the Token objects ContextVar.set returned, per asyncio task
    with_blocks              \* the with statements each asyncio task is inside of

vars == <<bots, single_turn_handlers, users, messages, latest_message_in_chat,
          bot_response_cache, default_user, default_msg_ctx, tasks,
          streams, error_wrappers, consumers, bot_by_alias,
          channel_by_type_and_id, calls, callers, _current_context,
          _previous_ctx_token, tokens, with_blocks>>

apiVars == <<bot_by_alias, channel_by_type_and_id, calls, callers>>

ctxVars == <<_current_context, _previous_ctx_token, tokens, with_blocks>>

storeVars == <<bots, single_turn_handlers, users, messages, latest_message_in_chat,
               bot_response_cache, default_user, default_msg_ctx>>

\* ----------------------------------------------------------- dictionaries
\* dict.get(key): the value, or None
Get(d, k) == IF k \in DOMAIN d THEN d[k] ELSE None

\* d[key] = value
Put(d, k, v) == [x \in DOMAIN d \cup {k} |-> IF x = k THEN v ELSE d[x]]

EmptyDict == [x \in {} |-> None]

\* sorted(participant_uuids) for two participants
Sorted(a, b) == IF a <= b THEN <<a, b>> ELSE <<b, a>>

\* a chat key that forgets the context (a plausible slip)
ContextFreeChatKey(context_uuid, sender_uuid, receiver_uuid) ==
    <<None>> \o Sorted(sender_uuid, receiver_uuid)

\* a chat key that keeps the direction of the message (a plausible slip)
DirectedChatKey(context_uuid, sender_uuid, receiver_uuid) ==
    <<context_uuid, sender_uuid, receiver_uuid>>

_generate_latest_message_in_chat_key(context_uuid, sender_uuid, receiver_uuid) ==
    <<context_uuid>> \o Sorted(sender_uuid, receiver_uuid)

\* json.dumps(extra_fields, sort_keys=True): the items of the dict in key order
RECURSIVE JsonDumps(_)
JsonDumps(extra_fields) ==
    IF extra_fields = {} THEN <<>>
    ELSE LET first == CHOOSE p \in extra_fields : \A q \in extra_fields : p[1] <= q[1]
         IN  <<first>> \o JsonDumps(extra_fields \ {first})

\* ---------------------------------------------------------------- messages
\* the content given to _create_message: new content, or a message to forward
PlainContent(v) == [is_msg |-> FALSE, v |-> v]
MessageContent(m) == [is_msg |-> TRUE, v |-> m]

\* the argument request or requests that is not given (None)
NoRequest == [is_msg |-> FALSE, v |-> None]

\* the BotResponses object of stream s where a value of content is held: the
\* values of new content are positive
StreamObject(s) == 0 - s

\* the stream s of another turn given as a request
StreamContent(s) == [is_msg |-> FALSE, v |-> StreamObject(s), stream |-> s]

\* isinstance(request, BotResponses)
IsBotResponses(request) == "stream" \in DOMAIN request

\* a forward that is final whatever the forwarded message is
FinalStillThinking(content) == "False"

\* still_thinking = content.still_thinking: a forward with no still_thinking
\* given takes the value of the forwarded message
InheritedStillThinking(content) == content.still_thinking

\* a message that is built with itself as the message it goes after
NewMessageAfterItself(l, uuid) ==
    [kind                |-> IF l.c_content.is_msg THEN "forwarded" ELSE "original",
     sender              |-> l.c_sender,
     receiver            |-> l.c_receiver,
     still_thinking      |-> IF l.c_still_thinking = "None"
                             THEN InheritedStillThinking(messages[l.c_content.v])
                             ELSE l.c_still_thinking,
     parent_ctx_msg_uuid |-> l.c_ctx,
     requesting_msg_uuid |-> l.c_req,
     prev_msg_uuid       |-> uuid,
     invisible_to_bots   |-> FALSE,
     original_message    |-> IF l.c_content.is_msg THEN l.c_content.v ELSE uuid,
     content             |-> IF l.c_content.is_msg THEN None ELSE l.c_content.v,
     extra_fields        |-> l.c_extra]

\* the message object _create_message builds for the locals l of a call
NewMessage(l, uuid) ==
    [kind                |-> IF l.c_content.is_msg THEN "forwarded" ELSE "original",
     sender              |-> l.c_sender,
     receiver            |-> l.c_receiver,
     still_thinking      |-> IF l.c_still_thinking = "None"
                             THEN InheritedStillThinking(messages[l.c_content.v])
                             ELSE l.c_still_thinking,
     parent_ctx_msg_uuid |-> l.c_ctx,
     requesting_msg_uuid |-> l.c_req,
     prev_msg_uuid       |-> l.c_prev,
     invisible_to_bots   |-> FALSE,
     original_message    |-> IF l.c_content.is_msg THEN l.c_content.v ELSE uuid,
     content             |-> IF l.c_content.is_msg THEN None ELSE l.c_content.v,
     extra_fields        |-> l.c_extra]

\* ------------------------------------------------------------------ streams
NewStream ==
    [responses_so_far |-> <<>>,
     queue            |-> <<>>,       \* _response_queue, while it is not None
     closed           |-> FALSE,      \* _response_queue is None
     error            |-> None,       \* _error
     cached           |-> None,       \* _cached_bot_response_iterator: its stream
     cached_index     |-> 0,          \* _cached_bot_response_iterator: its _index
     lock             |-> None]       \* _lock: the consumer holding it

MsgItem(m) == [type |-> "msg", v |-> m]
StreamItem(s) == [type |-> "stream", v |-> s]
ExcItem(e) == [type |-> "exc", v |-> e]
EndItem == [type |-> "end", v |-> None]

\* a queue that hands out the item put last first
PutInFront(s, items) == [streams EXCEPT ![s].queue = items \o @]

\* _response_queue.put_nowait(item), for each item of items
PutAll(s, items) == [streams EXCEPT ![s].queue = @ \o items]

\* an except clause that swallows the exception
ExceptionSwallowed(exc) == <<>>

\* except Exception as exc: the exception is put on the queue
OnException(exc) == <<ExcItem(exc)>>

\* a finally clause that puts nothing
NoSentinel(items) == items

\* finally: the end-of-responses sentinel is put after what the turn has put
OnFinally(items) == Append(items, EndItem)

\* -------------------------------------------------------------------- tasks
NewTask(bot, request, override_sender, override_parent_ctx, rewrite_cache, extra) ==
    [bot                 |-> bot,
     request             |-> request,
     override_sender     |-> override_sender,
     override_parent_ctx |-> override_parent_ctx,
     rewrite_cache       |-> rewrite_cache,
     extra               |-> extra,
     pc                  |-> "start",
     ret                 |-> "prep",
     c_content           |-> request,
     c_still_thinking    |-> "False",
     c_sender            |-> None,
     c_receiver          |-> None,
     c_ctx               |-> None,
     c_req               |-> None,
     c_prev              |-> None,
     c_extra             |-> {},
     c_msg               |-> None,
     requests            |-> <<>>,
     pending             |-> <<>>,
     caching_key         |-> [alias |-> bots[bot].alias, reqs |-> <<>>],
     handler_ran         |-> FALSE,
     yielded             |-> <<>>,
     in_flight           |-> {i \in 1 .. Len(tasks) : tasks[i].pc # "done"},
     outcome             |-> "running"]

Tasks == 1 .. Len(tasks)

\* uuid4(), called by task t: a value no other call returns.  Task t draws from
\* its own block of uuids, one for each message it creates.
uuid4(t) ==
    FirstFreshUuid + (t - 1) * (MaxYields + 1) + Len(tasks[t].requests)
        + Len(tasks[t].yielded)

\* SingleTurnContext.concluding_request
concluding_request(t) == tasks[t].requests[Len(tasks[t].requests)]


\* ------------------------------------------------- create_next_message
\* get_default_msg_ctx, up to its first store access: the call goes on with the
\* cached default context, or has to create it (and the default user before it)
ResolveCtx(l, du, dctx) ==
    IF l.c_ctx # None THEN [l EXCEPT !.pc = "get_latest"]
    ELSE IF dctx # None THEN [l EXCEPT !.c_ctx = dctx, !.pc = "get_latest"]
    ELSE IF du = None THEN [l EXCEPT !.pc = "create_default_user"]
    ELSE [l EXCEPT !.pc = "create_default_msg_ctx"]

\* create_next_message, up to its first store access
ResolveSender(l, du, dctx) ==
    IF l.c_sender # None THEN ResolveCtx(l, du, dctx)
    ELSE IF du = None THEN [l EXCEPT !.pc = "create_default_user"]
    ELSE ResolveCtx([l EXCEPT !.c_sender = du], du, dctx)

\* except Exception ... finally: the error and the sentinel go on the queue
Fail(t, err) ==
    /\ tasks' = [tasks EXCEPT ![t].pc = "done", ![t].outcome = "failed"]
    /\ streams' = PutAll(t, OnFinally(OnException(err)))

\* no Token: _previous_ctx_token was never set in the task
NoToken == <<>>

\* SingleTurnContext.__enter__ of context ctx in asyncio task k: the token of
\* _current_context.set(self) is kept in _previous_ctx_token
Enter(k, ctx) ==
    /\ tokens' = [tokens EXCEPT ![k] =
                     Append(@, [old_value |-> _current_context[k], used |-> FALSE])]
    /\ _current_context' = [_current_context EXCEPT ![k] = ctx]
    /\ _previous_ctx_token' = [_previous_ctx_token EXCEPT ![k] =
                                  <<k, Len(tokens[k]) + 1>>]
    /\ with_blocks' = [with_blocks EXCEPT ![k] =
                          Append(@, [ctx |-> ctx, before |-> _current_context[k]])]

\* what SingleTurnContext.__exit__ raises in asyncio task k, or None:
\* _previous_ctx_token.get() of a variable never set, or reset of a token that
\* was used once already or that another context created
ExitError(k) ==
    LET tok == _previous_ctx_token[k]
    IN  IF tok = NoToken THEN LookupError
        ELSE IF tokens[tok[1]][tok[2]].used THEN AlreadyUsedError
        ELSE IF tok[1] # k THEN OtherContextError
        ELSE None

\* SingleTurnContext.__exit__ in asyncio task k:
\* _current_context.reset(_previous_ctx_token.get())
Exit(k) ==
    LET tok == _previous_ctx_token[k]
    IN  /\ with_blocks' = [with_blocks EXCEPT ![k] = SubSeq(@, 1, Len(@) - 1)]
        /\ IF ExitError(k) # None
           THEN UNCHANGED <<_current_context, _previous_ctx_token, tokens>>
           ELSE /\ _current_context' = [_current_context EXCEPT ![k] =
                                           tokens[tok[1]][tok[2]].old_value]
                /\ tokens' = [tokens EXCEPT ![tok[1]][tok[2]].used = TRUE]
                /\ UNCHANGED _previous_ctx_token

\* _prepare_request(_request) in a call with the argument request: the test is
\* isinstance(request, BotResponses), of the argument of the call, and the
\* stream that is iterated is _request; the result is what is given to
\* _prepare_merged_message, in order
_prepare_request(request, _request) ==
    IF IsBotResponses(request)
    THEN [i \in 1 .. Len(tasks[_request.stream].yielded) |->
             MessageContent(tasks[_request.stream].yielded[i])]
    ELSE <<_request>>

\* a stream whose producer has returned, iterated to its end: the responses
\* are kept and the queue is dropped
IteratedToEnd(stream, yielded) ==
    [stream EXCEPT !.responses_so_far = yielded, !.queue = <<>>, !.closed = TRUE]

\* _prepare_merged_message for the first of the pending requests:
\* create_next_message, up to its first store access
PrepareNext(l, du, dctx) ==
    ResolveSender([l EXCEPT !.ret = "prep",
                            !.c_content = Head(l.pending),
                            !.pending = Tail(l.pending),
                            !.c_still_thinking = "False",
                            !.c_sender = l.override_sender,
                            !.c_receiver = l.bot,
                            !.c_ctx = l.override_parent_ctx,
                            !.c_req = None,
                            !.c_extra = l.extra],
                  du, dctx)

\* context.requests = tuple(prepared_requests): the coroutine goes on to the
\* cache, or into the handler of a bot with no_cache
PreparedAll(l, no_cache) ==
    [l EXCEPT !.handler_ran = no_cache,
              !.pc = IF no_cache THEN "handler"
                     ELSE IF ~l.rewrite_cache THEN "get_cache" ELSE "set_cache"]

\* _run_single_turn_handler is scheduled: it runs to the first store access of
\* _prepare_merged_message's create_next_message; a stream given as the request
\* is iterated first, when its producer has returned
TaskStart(t) ==
    /\ tasks[t].pc = "start"
    /\ LET l == tasks[t]
           no_cache == bots[l.bot].no_cache
           prepared == _prepare_request(l.given_request, l.request)
       IN  /\ IsBotResponses(l.given_request) => tasks[l.given_request.stream].pc = "done"
           /\ IF prepared = <<>>
              THEN /\ tasks' = [tasks EXCEPT ![t] = PreparedAll(l, no_cache)]
                   /\ IF no_cache THEN Enter(t, t) ELSE UNCHANGED ctxVars
              ELSE /\ tasks' = [tasks EXCEPT ![t] =
                          PrepareNext([l EXCEPT !.pending = prepared],
                                      default_user, default_msg_ctx)]
                   /\ UNCHANGED ctxVars
           /\ streams' = IF IsBotResponses(l.given_request)
                         THEN [streams EXCEPT ![l.given_request.stream] =
                                  IteratedToEnd(@, tasks[l.given_request.stream].yielded)]
                         ELSE streams
    /\ UNCHANGED <<storeVars, error_wrappers, consumers>>
    /\ UNCHANGED apiVars

\* get_default_user: create_user registers the default user, then _default_user is set
CreateDefaultUser(t) ==
    /\ tasks[t].pc = "create_default_user"
    /\ IF DEFAULT_USER_UUID \in DOMAIN users
       THEN /\ Fail(t, KeyExistsError)
            /\ UNCHANGED <<users, default_user>>
       ELSE /\ users' = Put(users, DEFAULT_USER_UUID, [name |-> DEFAULT_USER_NAME])
            /\ default_user' = DEFAULT_USER_UUID
            /\ tasks' = [tasks EXCEPT ![t] =
                  IF @.c_sender = None
                  THEN ResolveCtx([@ EXCEPT !.c_sender = DEFAULT_USER_UUID],
                                  DEFAULT_USER_UUID, default_msg_ctx)
                  ELSE [@ EXCEPT !.pc = "create_default_msg_ctx"]]
            /\ UNCHANGED streams
    /\ UNCHANGED <<bots, single_turn_handlers, messages, latest_message_in_chat,
                   bot_response_cache, default_msg_ctx, error_wrappers, consumers>>
    /\ UNCHANGED <<apiVars, ctxVars>>

\* the message get_default_msg_ctx creates
DefaultMsgCtx ==
    [kind                |-> "original",
     sender              |-> default_user,
     receiver            |-> default_user,
     still_thinking      |-> "False",
     parent_ctx_msg_uuid |-> None,
     requesting_msg_uuid |-> None,
     prev_msg_uuid       |-> None,
     invisible_to_bots   |-> FALSE,
     original_message    |-> DEFAULT_MSG_CTX_UUID,
     content             |-> None,
     extra_fields        |-> {}]

\* get_default_msg_ctx: _create_message registers the default context, then
\* _default_msg_ctx is set
CreateDefaultMsgCtx(t) ==
    /\ tasks[t].pc = "create_default_msg_ctx"
    /\ IF DEFAULT_MSG_CTX_UUID \in DOMAIN messages
       THEN /\ Fail(t, KeyExistsError)
            /\ UNCHANGED <<messages, default_msg_ctx>>
       ELSE /\ messages' = Put(messages, DEFAULT_MSG_CTX_UUID, DefaultMsgCtx)
            /\ default_msg_ctx' = DEFAULT_MSG_CTX_UUID
            /\ tasks' = [tasks EXCEPT ![t].c_ctx = DEFAULT_MSG_CTX_UUID,
                                      ![t].pc = "get_latest"]
            /\ UNCHANGED streams
    /\ UNCHANGED <<bots, single_turn_handlers, users, latest_message_in_chat,
                   bot_response_cache, default_user, error_wrappers, consumers>>
    /\ UNCHANGED <<apiVars, ctxVars>>

\* create_next_message reads the latest-message pointer; _create_message then
\* builds the message, which takes a fresh uuid
GetLatest(t) ==
    /\ tasks[t].pc = "get_latest"
    /\ LET l == tasks[t]
           key == _generate_latest_message_in_chat_key(l.c_ctx, l.c_sender, l.c_receiver)
       IN  IF ~l.c_content.is_msg /\ l.c_still_thinking = "None"
           THEN Fail(t, StillThinkingError)
           ELSE /\ tasks' = [tasks EXCEPT ![t].c_prev = Get(latest_message_in_chat, key),
                                          ![t].c_msg = uuid4(t),
                                          ![t].pc = "register_message"]
                /\ UNCHANGED streams
    /\ UNCHANGED <<bots, single_turn_handlers, users, messages, latest_message_in_chat,
                   bot_response_cache, default_user, default_msg_ctx, error_wrappers,
                   consumers>>
    /\ UNCHANGED <<apiVars, ctxVars>>

\* _register_message: the message is registered under its uuid
RegisterMessage(t) ==
    /\ tasks[t].pc = "register_message"
    /\ LET l == tasks[t]
       IN  IF l.c_msg \in DOMAIN messages
           THEN /\ Fail(t, KeyExistsError)
                /\ UNCHANGED messages
           ELSE /\ messages' = Put(messages, l.c_msg, NewMessage(l, l.c_msg))
                /\ tasks' = [tasks EXCEPT ![t].pc = "set_latest"]
                /\ UNCHANGED streams
    /\ UNCHANGED <<bots, single_turn_handlers, users, latest_message_in_chat,
                   bot_response_cache, default_user, default_msg_ctx, error_wrappers,
                   consumers>>
    /\ UNCHANGED <<apiVars, ctxVars>>

\* a lookup that ignores rewrite_cache (a plausible slip)
LooksUpCacheAlways(no_cache, rewrite_cache) == ~no_cache

\* whether _run_single_turn_handler looks the caching key up
LooksUpCache(no_cache, rewrite_cache) == ~no_cache /\ ~rewrite_cache

\* a caching key that leaves the requests out
KeyOfBotOnly(key, no_cache, m, extra) == key

\* the caching key after _prepare_merged_message has appended the request
KeyWith(key, no_cache, m, extra) ==
    IF no_cache THEN key
    ELSE [key EXCEPT !.reqs = Append(@, <<m, JsonDumps(extra)>>)]

\* a queue that holds one item at most, and makes the coroutine that puts wait
QueueOfOne(queue) == queue = <<>>

\* Queue(): no maxsize, put_nowait finds room whatever the queue holds
QueueHasRoom(queue) == TRUE

\* _register_message sets the latest-message pointer and create_next_message
\* returns: to _prepare_merged_message, which goes on to the next request that
\* is pending or to the cache, or to yield_response, which puts the message on
\* the queue
SetLatest(t) ==
    /\ tasks[t].pc = "set_latest"
    /\ LET l == tasks[t]
           key == _generate_latest_message_in_chat_key(l.c_ctx, l.c_sender, l.c_receiver)
           no_cache == bots[l.bot].no_cache
       IN  /\ latest_message_in_chat' = Put(latest_message_in_chat, key, l.c_msg)
           /\ IF l.ret = "prep" /\ l.pending # <<>>
              THEN /\ tasks' = [tasks EXCEPT ![t] =
                        PrepareNext([@ EXCEPT !.requests = Append(@, l.c_msg),
                                              !.caching_key = KeyWith(@, no_cache,
                                                  messages[l.c_msg].original_message,
                                                  l.c_extra)],
                                    default_user, default_msg_ctx)]
                   /\ UNCHANGED <<streams, ctxVars>>
              ELSE IF l.ret = "prep"
              THEN /\ tasks' = [tasks EXCEPT ![t] =
                        [@ EXCEPT !.requests = Append(@, l.c_msg),
                                  !.caching_key = KeyWith(@, no_cache,
                                      messages[l.c_msg].original_message, l.c_extra),
                                  !.handler_ran = no_cache,
                                  !.pc = IF no_cache THEN "handler"
                                         ELSE IF LooksUpCache(no_cache, l.rewrite_cache)
                                              THEN "get_cache" ELSE "set_cache"]]
                   /\ IF no_cache THEN Enter(t, t) ELSE UNCHANGED ctxVars
                   /\ UNCHANGED streams
              ELSE /\ QueueHasRoom(streams[t].queue)
                   /\ tasks' = [tasks EXCEPT ![t].yielded = Append(@, l.c_msg),
                                             ![t].pc = "handler"]
                   /\ streams' = PutAll(t, <<MsgItem(l.c_msg)>>)
                   /\ UNCHANGED ctxVars
    /\ UNCHANGED <<bots, single_turn_handlers, users, messages, bot_response_cache,
                   default_user, default_msg_ctx, error_wrappers, consumers>>
    /\ UNCHANGED apiVars

\* a cache that does not answer with the stream of a handler that raised
CachedUnlessFailed(cache, key) ==
    IF Get(cache, key) # None /\ tasks[Get(cache, key)].outcome = "raised"
    THEN None ELSE Get(cache, key)

\* cached_responses = await self.get_mutable_state(caching_key)
CachedResponses(cache, key) == Get(cache, key)

\* get_mutable_state(caching_key): a hit puts the cached stream and the sentinel
\* on the queue of this turn's stream
GetCache(t) ==
    /\ tasks[t].pc = "get_cache"
    /\ LET cached_responses == CachedResponses(bot_response_cache, tasks[t].caching_key)
       IN  IF cached_responses = None
           THEN /\ tasks' = [tasks EXCEPT ![t].pc = "set_cache"]
                /\ UNCHANGED streams
           ELSE /\ tasks' = [tasks EXCEPT ![t].pc = "done", ![t].outcome = "relayed"]
                /\ streams' = PutAll(t, OnFinally(<<StreamItem(cached_responses)>>))
    /\ UNCHANGED <<storeVars, error_wrappers, consumers>>
    /\ UNCHANGED <<apiVars, ctxVars>>

\* a store that keeps the state a key was given first
SetDefault(state, key, value) == IF key \in DOMAIN state THEN state ELSE Put(state, key, value)

\* set_mutable_state: self._mutable_objects[key] = state
set_mutable_state(state, key, value) == Put(state, key, value)

\* set_mutable_state(caching_key, this turn's stream), then the handler is entered
SetCache(t) ==
    /\ tasks[t].pc = "set_cache"
    /\ bot_response_cache' = set_mutable_state(bot_response_cache, tasks[t].caching_key, t)
    /\ tasks' = [tasks EXCEPT ![t].handler_ran = TRUE, ![t].pc = "handler"]
    /\ Enter(t, t)
    /\ UNCHANGED <<bots, single_turn_handlers, users, messages, latest_message_in_chat,
                   default_user, default_msg_ctx, streams, error_wrappers, consumers>>
    /\ UNCHANGED apiVars

\* a reply addressed to the receiver of the request
ToRequestReceiver(request) == request.receiver

\* receiver=self.concluding_request.sender
ToRequestSender(request) == request.sender

\* the handler calls yield_response with a response that is new content or a
\* message of the store: create_next_message for a reply to the concluding
\* request, up to its first store access
yield_content(t, response, still_thinking) ==
    /\ tasks[t].pc = "handler"
    /\ Len(tasks[t].yielded) < MaxYields
    /\ LET req == concluding_request(t)
           l == tasks[t]
       IN  tasks' = [tasks EXCEPT ![t] =
              ResolveSender([l EXCEPT !.ret = "yield",
                                      !.c_content = response,
                                      !.c_still_thinking = still_thinking,
                                      !.c_sender = l.bot,
                                      !.c_receiver = ToRequestSender(messages[req]),
                                      !.c_ctx = messages[req].parent_ctx_msg_uuid,
                                      !.c_req = req,
                                      !.c_extra = {}],
                            default_user, default_msg_ctx)]
    /\ UNCHANGED <<storeVars, streams, error_wrappers, consumers>>
    /\ UNCHANGED <<apiVars, ctxVars>>

\* the handler calls yield_response with new content
yield_response(t, still_thinking) ==
    yield_content(t, PlainContent(Len(tasks[t].yielded) + 1), still_thinking)

\* the handler calls yield_interim_response
yield_interim_response(t) == yield_response(t, "True")

\* a final response that is marked as still thinking
yield_final_still_thinking(t) == yield_response(t, "True")

\* the handler calls yield_final_response
yield_final_response(t) == yield_response(t, "False")

\* the handler returns: finally puts the sentinel on the queue
HandlerReturn(t) ==
    /\ tasks[t].pc = "handler"
    /\ tasks' = [tasks EXCEPT ![t].pc = "done", ![t].outcome = "returned"]
    /\ Exit(t)
    /\ streams' = PutAll(t, OnFinally(IF ExitError(t) = None THEN <<>>
                                      ELSE OnException(ExitError(t))))
    /\ UNCHANGED <<storeVars, error_wrappers, consumers>>
    /\ UNCHANGED apiVars

\* the handler raises: except puts the error, finally the sentinel
HandlerRaise(t) ==
    /\ tasks[t].pc = "handler"
    /\ tasks' = [tasks EXCEPT ![t].pc = "done", ![t].outcome = "raised"]
    /\ Exit(t)
    /\ streams' = PutAll(t, OnFinally(OnException(IF ExitError(t) = None
                                                  THEN HandlerError
                                                  ELSE ExitError(t))))
    /\ UNCHANGED <<storeVars, error_wrappers, consumers>>
    /\ UNCHANGED apiVars

\* a coroutine that is run to its end where it should be scheduled
RunToCompletion(coro) ==
    [coro EXCEPT !.pc = "done", !.handler_ran = TRUE, !.outcome = "returned"]

\* asyncio.create_task(coro): the coroutine is scheduled and has not run
create_task(coro) == coro

\* the call of the API raises err to its caller
Raise(op, args, err) ==
    calls' = Append(calls, [op |-> op, args |-> args, ret |-> None, err |-> err])

\* the call of the API returns ret to its caller
Return(op, args, ret) ==
    calls' = Append(calls, [op |-> op, args |-> args, ret |-> ret, err |-> None])

\* a handler lookup that finds a handler for every bot
HandlerAlwaysFound(handlers, bot) == FALSE

\* handler = self._single_turn_handlers[bot.uuid] raises KeyError
HandlerMissing(handlers, bot) == bot \notin DOMAIN handlers

\* a check of the two arguments that lets every call through
BothNeverGiven(request, requests) == FALSE

\* request is not None and requests is not None
BothGiven(request, requests) == request # NoRequest /\ requests # NoRequest

\* a lookup of the ambient context in the task of the caller that is no handler
ContextOfMainTask(cv, k) == cv[MainTask]

\* SingleTurnContext._current_context.get() in asyncio task k
ContextOf(cv, k) == cv[k]

\* the arguments of the call kept with the coroutine it scheduled
Triggered(coro, caller, request, requests, override_sender, override_parent_ctx) ==
    coro @@ [caller           |-> caller,
             given_request    |-> request,
             given_requests   |-> requests,
             given_sender     |-> override_sender,
             given_parent_ctx |-> override_parent_ctx]

\* trigger_bot called in asyncio task caller: the handler is looked up, the
\* arguments are checked, the sender and the context that were not given are
\* taken from the ambient context, the stream and the context are made and the
\* coroutine is scheduled in a copy of the caller's context variables
trigger_bot_in(caller, bot, request, requests, override_sender, override_parent_ctx, rewrite_cache, extra) ==
    LET current_context == ContextOf(_current_context, caller)
        sender == IF current_context # None /\ override_sender = None
                  THEN tasks[current_context].bot ELSE override_sender
        parent_ctx == IF current_context # None /\ override_parent_ctx = None
                      THEN concluding_request(current_context)
                      ELSE override_parent_ctx
        t == Len(tasks) + 1
    IN  IF HandlerMissing(single_turn_handlers, bot)
        THEN /\ Len(calls) < MaxCalls
             /\ Raise("trigger_bot", <<bot, request, requests>>, KeyError)
             /\ UNCHANGED <<storeVars, tasks, streams, error_wrappers, consumers,
                            bot_by_alias, channel_by_type_and_id, callers, ctxVars>>
        ELSE IF BothGiven(request, requests)
        THEN /\ Len(calls) < MaxCalls
             /\ Raise("trigger_bot", <<bot, request, requests>>, BothGivenError)
             /\ UNCHANGED <<storeVars, tasks, streams, error_wrappers, consumers,
                            bot_by_alias, channel_by_type_and_id, callers, ctxVars>>
        ELSE /\ tasks' = Append(tasks, Triggered(
                    create_task(NewTask(bot,
                                        IF requests # NoRequest THEN requests ELSE request,
                                        sender, parent_ctx, rewrite_cache, extra)),
                    caller, request, requests, override_sender, override_parent_ctx))
             /\ streams' = Append(streams, NewStream)
             /\ _current_context' = Put(_current_context, t, _current_context[caller])
             /\ _previous_ctx_token' = Put(_previous_ctx_token, t,
                                           _previous_ctx_token[caller])
             /\ tokens' = Put(tokens, t, <<>>)
             /\ with_blocks' = Put(with_blocks, t, <<>>)
             /\ UNCHANGED <<storeVars, error_wrappers, consumers, apiVars>>

\* trigger_bot called outside any handler
trigger_bot(bot, request, requests, override_sender, override_parent_ctx, rewrite_cache, extra) ==
    /\ Len(tasks) < MaxTasks
    /\ trigger_bot_in(MainTask, bot, request, requests, override_sender,
                      override_parent_ctx, rewrite_cache, extra)

\* trigger_bot called by the handler of task h
trigger_bot_from_handler(h, bot, request, requests, override_sender, override_parent_ctx, rewrite_cache, extra) ==
    /\ tasks[h].pc = "handler"
    /\ Len(tasks) < MaxTasks + MaxNested
    /\ trigger_bot_in(h, bot, request, requests, override_sender,
                      override_parent_ctx, rewrite_cache, extra)

\* the caching key of trigger_bot for the one request: the tuple of the uuid
\* and the extra fields is one item of the key
TriggerKey(alias, request) ==
    [alias |-> alias,
     reqs  |-> <<<<request.original_message, JsonDumps(request.extra_fields)>>>>]

\* the caching key _replay_single_turn_handler builds: the uuid and the extra
\* fields are two items of the key
ReplayKey(alias, request) ==
    [alias |-> alias,
     reqs  |-> <<request.original_message, JsonDumps(request.extra_fields)>>]

\* the tasks that replay calls have scheduled
Replays == {t \in Tasks : tasks[t].requests = <<tasks[t].request.v>>
                              \/ tasks[t].pc = "replay"}

\* replay(request_msg_uuid): the request is looked up as a message, its
\* receiver has to be a bot with a handler, the stream and the context are made
\* and the coroutine is scheduled
replay(request_msg_uuid) ==
    LET t == Len(tasks) + 1
        error == IF request_msg_uuid \in DOMAIN bots \cup DOMAIN users
                     THEN WrongTypeError
                 ELSE IF request_msg_uuid \notin DOMAIN messages
                     THEN NotFoundError
                 ELSE IF messages[request_msg_uuid].receiver \notin DOMAIN bots
                     THEN NotSentToBotError
                 ELSE IF HandlerMissing(single_turn_handlers,
                                        messages[request_msg_uuid].receiver)
                     THEN KeyError
                 ELSE None
    IN  IF error # None
        THEN /\ Len(calls) < MaxCalls
             /\ Raise("replay", <<request_msg_uuid>>, error)
             /\ UNCHANGED <<storeVars, tasks, streams, error_wrappers, consumers,
                            bot_by_alias, channel_by_type_and_id, callers, ctxVars>>
        ELSE /\ Cardinality(Replays) < MaxReplays
             /\ Len(tasks) < MaxTasks + MaxReplays
             /\ tasks' = Append(tasks, Triggered(
                    create_task([NewTask(messages[request_msg_uuid].receiver,
                                         MessageContent(request_msg_uuid),
                                         None, None, FALSE, {})
                                    EXCEPT !.pc = "replay"]),
                    MainTask, MessageContent(request_msg_uuid), NoRequest, None, None))
             /\ streams' = Append(streams, NewStream)
             /\ _current_context' = Put(_current_context, t, _current_context[MainTask])
             /\ _previous_ctx_token' = Put(_previous_ctx_token, t,
                                           _previous_ctx_token[MainTask])
             /\ tokens' = Put(tokens, t, <<>>)
             /\ with_blocks' = Put(with_blocks, t, <<>>)
             /\ UNCHANGED <<storeVars, error_wrappers, consumers, apiVars>>

\* _replay_single_turn_handler is scheduled: the caching key is built, the
\* request is the one request of the context, and the coroutine runs to
\* set_mutable_state, or into the handler of a bot with no_cache
ReplayStart(t) ==
    /\ tasks[t].pc = "replay"
    /\ LET l == tasks[t]
           request == l.request.v
           no_cache == bots[l.bot].no_cache
       IN  /\ tasks' = [tasks EXCEPT ![t] =
                 [@ EXCEPT !.requests = <<request>>,
                           !.caching_key = ReplayKey(bots[l.bot].alias, messages[request]),
                           !.handler_ran = no_cache,
                           !.pc = IF no_cache THEN "handler" ELSE "set_cache"]]
           /\ IF no_cache THEN Enter(t, t) ELSE UNCHANGED ctxVars
    /\ UNCHANGED <<storeVars, streams, error_wrappers, consumers, apiVars>>

\* the uuid4() of the i-th object a call of the API by the main caller creates
uuid4_of_call(i) ==
    FirstFreshUuid + (MaxTasks + MaxNested) * (MaxYields + 1) + 2 * Len(calls) + i

\* MergedObject.Config.allow_mutation
allow_mutation == FALSE

\* a store whose _register_immutable_object overwrites
KeyNeverTaken(keys, key) == FALSE

\* _register_immutable_object: if key in self._immutable_objects
KeyTaken(keys, key) == key \in keys

\* the uuid keys of _immutable_objects
ObjectKeys == DOMAIN bots \cup DOMAIN users \cup DOMAIN messages

\* a handler table that keeps the handler a bot was given first
HandlerKeptFirst(handlers, bot, handler) == IF bot \in DOMAIN handlers THEN handlers ELSE Put(handlers, bot, handler)

\* register_local_single_turn_handler: self._single_turn_handlers[bot.uuid] = handler
register_local_single_turn_handler(handlers, bot, handler) == Put(handlers, bot, handler)

\* create_bot_async: a bot found under the alias is assigned the new name and
\* no_cache, which an immutable model refuses with a TypeError; else the bot is
\* made and registered under its uuid and under its alias; then the handler,
\* if one is given, is registered
create_bot_async(alias, name, no_cache, single_turn) ==
    /\ Len(calls) < MaxCalls
    /\ LET bot == Get(bot_by_alias, alias)
           uuid == uuid4_of_call(0)
           the_name == IF name = None THEN alias ELSE name
           args == <<alias, name, no_cache, single_turn>>
       IN  IF bot # None
           THEN IF allow_mutation
                THEN /\ bots' = [bots EXCEPT ![bot].name = the_name,
                                             ![bot].no_cache = no_cache]
                     /\ single_turn_handlers' =
                            IF single_turn # None
                            THEN register_local_single_turn_handler(
                                     single_turn_handlers, bot, single_turn)
                            ELSE single_turn_handlers
                     /\ Return("create_bot_async", args, bot)
                     /\ UNCHANGED bot_by_alias
                ELSE /\ Raise("create_bot_async", args, ImmutableError)
                     /\ UNCHANGED <<bots, single_turn_handlers, bot_by_alias>>
           ELSE /\ bots' = Put(bots, uuid, [alias |-> alias, name |-> the_name,
                                            no_cache |-> no_cache])
                /\ bot_by_alias' = Put(bot_by_alias, alias, uuid)
                /\ single_turn_handlers' =
                       IF single_turn # None
                       THEN register_local_single_turn_handler(
                                single_turn_handlers, uuid, single_turn)
                       ELSE single_turn_handlers
                /\ Return("create_bot_async", args, uuid)
    /\ UNCHANGED <<users, messages, latest_message_in_chat, bot_response_cache,
                   default_user, default_msg_ctx, tasks, streams, error_wrappers,
                   consumers, channel_by_type_and_id, callers, ctxVars>>

\* create_user(name, uuid=...): the user is registered under its uuid, a fresh
\* one if none is given
create_user(name, uuid) ==
    /\ Len(calls) < MaxCalls
    /\ LET u == IF uuid = None THEN uuid4_of_call(0) ELSE uuid
       IN  IF KeyTaken(ObjectKeys, u)
           THEN /\ Raise("create_user", <<name, uuid>>, KeyExistsError)
                /\ UNCHANGED users
           ELSE /\ users' = Put(users, u, [name |-> name])
                /\ Return("create_user", <<name, uuid>>, u)
    /\ UNCHANGED <<bots, single_turn_handlers, messages, latest_message_in_chat,
                   bot_response_cache, default_user, default_msg_ctx, tasks, streams,
                   error_wrappers, consumers, bot_by_alias, channel_by_type_and_id,
                   callers, ctxVars>>

\* a channel key that leaves the channel type out
ChannelKeyById(channel_type, channel_id) == <<channel_id>>

\* _generate_channel_key, without its constant first component
_generate_channel_key(channel_type, channel_id) == <<channel_type, channel_id>>

\* the extra fields find_or_create_user_channel gives the message of a channel
ChannelFields(channel_type, channel_id) == {<<1, channel_type>>, <<2, channel_id>>}

\* find_or_create_user_channel: the message registered under the key of the
\* channel, or else a new user of the display name and a new message from that
\* user to themself, which is registered under the key
find_or_create_user_channel(channel_type, channel_id, user_display_name) ==
    /\ Len(calls) < MaxCalls
    /\ LET key == _generate_channel_key(channel_type, channel_id)
           channel_msg == Get(channel_by_type_and_id, key)
           user == uuid4_of_call(0)
           msg == uuid4_of_call(1)
           args == <<channel_type, channel_id, user_display_name>>
       IN  IF channel_msg # None
           THEN /\ Return("find_or_create_user_channel", args, channel_msg)
                /\ UNCHANGED <<users, messages, channel_by_type_and_id>>
           ELSE /\ users' = Put(users, user, [name |-> user_display_name])
                /\ messages' = Put(messages, msg,
                       [kind                |-> "original",
                        sender              |-> user,
                        receiver            |-> user,
                        still_thinking      |-> "False",
                        parent_ctx_msg_uuid |-> None,
                        requesting_msg_uuid |-> None,
                        prev_msg_uuid       |-> None,
                        invisible_to_bots   |-> FALSE,
                        original_message    |-> msg,
                        content             |-> None,
                        extra_fields        |-> ChannelFields(channel_type, channel_id)])
                /\ channel_by_type_and_id' = Put(channel_by_type_and_id, key, msg)
                /\ Return("find_or_create_user_channel", args, msg)
    /\ UNCHANGED <<bots, single_turn_handlers, latest_message_in_chat,
                   bot_response_cache, default_user, default_msg_ctx, tasks, streams,
                   error_wrappers, consumers, bot_by_alias, callers, ctxVars>>

\* with context: entered by a caller that is no handler
__enter__(ctx) ==
    /\ Len(tokens[MainTask]) < MaxTokens
    /\ Enter(MainTask, ctx)
    /\ UNCHANGED <<storeVars, tasks, streams, error_wrappers, consumers, apiVars>>

\* the end of the innermost with block of a caller that is no handler
__exit__ ==
    /\ with_blocks[MainTask] # <<>>
    /\ Exit(MainTask)
    /\ LET block == with_blocks[MainTask][Len(with_blocks[MainTask])]
       IN  IF ExitError(MainTask) = None
           THEN Return("__exit__", <<block.ctx, block.before>>, None)
           ELSE Raise("__exit__", <<block.ctx, block.before>>, ExitError(MainTask))
    /\ UNCHANGED <<storeVars, tasks, streams, error_wrappers, consumers, bot_by_alias,
                   channel_by_type_and_id, callers>>

\* ------------------------------------------------------------------- Init
\* two bots with a handler each, one of them with no_cache, and the channel of
\* a user, as create_bot_async and find_or_create_user_channel leave them
Init ==
    /\ bots = [b \in {CacheBot, NoCacheBot} |->
                 [alias |-> b, name |-> b, no_cache |-> (b = NoCacheBot)]]
    /\ single_turn_handlers = [b \in {CacheBot, NoCacheBot} |-> b]
    /\ users = [u \in {Alice} |-> [name |-> AliceName]]
    /\ messages = [m \in {AliceChannel} |->
                     [kind                |-> "original",
                      sender              |-> Alice,
                      receiver            |-> Alice,
                      still_thinking      |-> "False",
                      parent_ctx_msg_uuid |-> None,
                      requesting_msg_uuid |-> None,
                      prev_msg_uuid       |-> None,
                      invisible_to_bots   |-> FALSE,
                      original_message    |-> AliceChannel,
                      content             |-> None,
                      extra_fields        |-> ChannelFields(1, 1)]]
    /\ latest_message_in_chat = EmptyDict
    /\ bot_response_cache = EmptyDict
    /\ default_user = None
    /\ default_msg_ctx = None
    /\ tasks = <<>>
    /\ streams = <<>>
    /\ error_wrappers = <<>>
    /\ consumers = <<>>
    /\ bot_by_alias = [a \in {CacheBot, NoCacheBot} |-> a]
    /\ channel_by_type_and_id = [k \in {_generate_channel_key(1, 1)} |-> AliceChannel]
    /\ calls = <<>>
    /\ callers = <<>>
    /\ _current_context = [k \in {MainTask} |-> None]
    /\ _previous_ctx_token = [k \in {MainTask} |-> NoToken]
    /\ tokens = [k \in {MainTask} |-> <<>>]
    /\ with_blocks = [k \in {MainTask} |-> <<>>]

\* ---------------------------------------------------------------- consumers
Consumers == 1 .. Len(consumers)

\* a caller of a stream: a cursor (BotResponses._Iterator) and what it was given
NewConsumer(s, mode) ==
    [stream   |-> s,
     mode     |-> mode,     \* "iter": __anext__ by hand, "all": get_all_responses
     index    |-> 0,        \* _Iterator._index
     pc       |-> "idle",
     stack    |-> <<>>,     \* the streams whose _lock this caller holds, outermost first
     want     |-> None,     \* the stream whose _lock it waits for
     received |-> <<>>,     \* the messages __anext__ has returned to it
     last     |-> "none",   \* how its latest __anext__ ended: "msg", "stop", "error"
     err      |-> None,     \* the ErrorWrapper its latest failed __anext__ raised
     late     |-> \E d \in 1 .. Len(consumers) :    \* a caller had reached the
                     /\ consumers[d].stream = s   \* end of the stream when
                     /\ consumers[d].last \in {"stop", "error"},  \* this one came
     result   |-> <<>>]     \* the list get_all_responses returned

\* the place in responses_so_far that a cursor with _index i reads
CursorSlot(i) == i + 1

\* BotResponses.__aiter__: a fresh cursor on stream s
aiter(s) ==
    /\ Len(consumers) < MaxConsumers
    /\ consumers' = Append(consumers, NewConsumer(s, "iter"))
    /\ UNCHANGED <<storeVars, tasks, streams, error_wrappers>>
    /\ UNCHANGED <<apiVars, ctxVars>>

\* BotResponses.get_all_responses is called on stream s
get_all_responses(s) ==
    /\ Len(consumers) < MaxConsumers
    /\ consumers' = Append(consumers, NewConsumer(s, "all"))
    /\ UNCHANGED <<storeVars, tasks, streams, error_wrappers>>
    /\ UNCHANGED <<apiVars, ctxVars>>

\* a cached iterator whose _index stays where it is
RelayedInPlace(r, m) == [r EXCEPT !.responses_so_far = Append(@, m)]

\* the cached iterator of stream record r has returned m: its _index moves on
\* and _wait_for_next_response appends m to responses_so_far
Relayed(r, m) ==
    [r EXCEPT !.cached_index = @ + 1, !.responses_so_far = Append(@, m)]

\* the locks of the streams of stack are released; below the top frame, each
\* stream has been given m by its cached iterator
Unwound(str, stack, m) ==
    [x \in DOMAIN str |->
        IF \E i \in 1 .. Len(stack) : stack[i] = x
        THEN IF x = stack[Len(stack)] \/ m = None
             THEN [str[x] EXCEPT !.lock = None]
             ELSE [Relayed(str[x], m) EXCEPT !.lock = None]
        ELSE str[x]]

\* __anext__ returns message m to consumer c
Returned(c, m) ==
    consumers' = [consumers EXCEPT ![c].index = @ + 1,
                                   ![c].received = Append(@, m),
                                   ![c].last = "msg",
                                   ![c].pc = "idle",
                                   ![c].stack = <<>>,
                                   ![c].want = None]

\* __anext__ raises StopAsyncIteration to consumer c: get_all_responses returns
\* responses_so_far
Stopped(c, str) ==
    consumers' = [consumers EXCEPT ![c].last = "stop",
                                   ![c].pc = IF consumers[c].mode = "all"
                                             THEN "finished" ELSE "idle",
                                   ![c].result = IF consumers[c].mode = "all"
                                                 THEN str[consumers[c].stream].responses_so_far
                                                 ELSE @,
                                   ![c].stack = <<>>,
                                   ![c].want = None]

\* __anext__ raises the ErrorWrapper w to consumer c
Raised(c, w) ==
    consumers' = [consumers EXCEPT ![c].last = "error",
                                   ![c].err = w,
                                   ![c].pc = IF consumers[c].mode = "all"
                                             THEN "finished" ELSE "idle",
                                   ![c].stack = <<>>,
                                   ![c].want = None]

\* _Iterator.__anext__, its first try: the message at the cursor if it is
\* retained, else the caller goes for the lock of the stream
Anext(c) ==
    /\ consumers[c].pc = "idle"
    /\ LET s == consumers[c].stream
           i == consumers[c].index
       IN  IF i < Len(streams[s].responses_so_far)
           THEN Returned(c, streams[s].responses_so_far[CursorSlot(i)])
           ELSE consumers' = [consumers EXCEPT ![c].pc = "acquire", ![c].want = s]
    /\ UNCHANGED <<storeVars, tasks, streams, error_wrappers>>
    /\ UNCHANGED <<apiVars, ctxVars>>

\* async with self._bot_responses._lock: the lock is free and is taken
Acquire(c) ==
    /\ consumers[c].pc = "acquire"
    /\ streams[consumers[c].want].lock = None
    /\ streams' = [streams EXCEPT ![consumers[c].want].lock = c]
    /\ consumers' = [consumers EXCEPT ![c].pc = "locked",
                                      ![c].stack = Append(@, consumers[c].want),
                                      ![c].want = None]
    /\ UNCHANGED <<storeVars, tasks, error_wrappers>>
    /\ UNCHANGED <<apiVars, ctxVars>>

\* an error that is raised but not kept
WithoutError(r, w) == r

\* self._error = ErrorWrapper(error=response)
WithError(r, w) == [r EXCEPT !.error = w]

\* a sentinel that is taken off the queue and leaves the queue in place
StillOpen(r) == r

\* self._response_queue = None
Closed(r) == [r EXCEPT !.closed = TRUE]

\* a response that is returned and not kept
NotRetained(r, m) == r

\* self.responses_so_far.append(response), for a response taken off the queue
Retained(r, m) == [r EXCEPT !.responses_so_far = Append(@, m)]

\* a second try that never finds the message
NeverRetained(rsf, i) == FALSE

\* the second try of __anext__, under the lock: the message at the cursor is
\* retained by now
RetainedUnderLock(rsf, i) == i < Len(rsf)

\* with the lock of the top stream of its stack held, __anext__ tries the
\* retained list again and then calls _wait_for_next_response
Locked(c) ==
    /\ consumers[c].pc = "locked"
    /\ LET stack == consumers[c].stack
           d == Len(stack)
           s == stack[d]
           i == IF d = 1 THEN consumers[c].index ELSE streams[stack[d - 1]].cached_index
           rsf == streams[s].responses_so_far
           \* anext(self._cached_bot_response_iterator) for the cached stream u of
           \* str[s]: its first try, or the caller goes for the lock of u
           Inner(str, u) ==
               LET j == str[s].cached_index
               IN  IF j < Len(str[u].responses_so_far)
                   THEN LET m == str[u].responses_so_far[CursorSlot(j)]
                        IN  /\ streams' = Unwound(
                                   [str EXCEPT ![s] = Relayed(@, m)], stack, m)
                            /\ Returned(c, m)
                            /\ UNCHANGED error_wrappers
                   ELSE /\ streams' = str
                        /\ consumers' = [consumers EXCEPT ![c].pc = "acquire",
                                                          ![c].want = u]
                        /\ UNCHANGED error_wrappers
       IN  IF RetainedUnderLock(rsf, i)
           THEN /\ streams' = Unwound(streams, stack, rsf[CursorSlot(i)])
                /\ Returned(c, rsf[CursorSlot(i)])
                /\ UNCHANGED error_wrappers
           ELSE IF streams[s].cached # None
           THEN Inner(streams, streams[s].cached)
           ELSE IF streams[s].error # None
           THEN /\ streams' = Unwound(streams, stack, None)
                /\ Raised(c, streams[s].error)
                /\ UNCHANGED error_wrappers
           ELSE IF streams[s].closed
           THEN /\ streams' = Unwound(streams, stack, None)
                /\ Stopped(c, streams)
                /\ UNCHANGED error_wrappers
           ELSE /\ streams[s].queue # <<>>
                /\ LET item == Head(streams[s].queue)
                       got == [streams EXCEPT ![s].queue = Tail(@)]
                   IN  CASE item.type = "stream" ->
                              Inner([got EXCEPT ![s].cached = item.v,
                                                ![s].cached_index = 0], item.v)
                         [] item.type = "exc" ->
                              /\ error_wrappers' = Append(error_wrappers, item.v)
                              /\ streams' = Unwound(
                                     [got EXCEPT ![s] = WithError(@, Len(error_wrappers) + 1)],
                                     stack, None)
                              /\ Raised(c, Len(error_wrappers) + 1)
                         [] item.type = "end" ->
                              /\ streams' = Unwound([got EXCEPT ![s] = Closed(@)],
                                                    stack, None)
                              /\ Stopped(c, [got EXCEPT ![s] = Closed(@)])
                              /\ UNCHANGED error_wrappers
                         [] item.type = "msg" ->
                              /\ streams' = Unwound(
                                     [got EXCEPT ![s] = Retained(@, item.v)],
                                     stack, item.v)
                              /\ Returned(c, item.v)
                              /\ UNCHANGED error_wrappers
    /\ UNCHANGED <<storeVars, tasks>>
    /\ UNCHANGED <<apiVars, ctxVars>>

ConsumerStep(c) ==
    \/ Anext(c)
    \/ Acquire(c)
    \/ Locked(c)

Streams == 1 .. Len(streams)

\* the store accesses of a task
StoreStep(t) ==
    \/ GetLatest(t)
    \/ RegisterMessage(t)
    \/ SetLatest(t)
    \/ GetCache(t)
    \/ SetCache(t)

\* the store accesses that create the default user and the default context
DefaultsStep(t) ==
    \/ CreateDefaultUser(t)
    \/ CreateDefaultMsgCtx(t)

\* a task is between two suspension points of its own: with the in-memory store
\* (InMemoryBotMerger) no store access suspends, and a coroutine that runs is
\* not interleaved with any other
Running(t) == tasks[t].pc \notin {"start", "replay", "handler", "done"}

\* no coroutine of a turn is running: the event loop picks what runs next
Quiet == \A t \in Tasks : ~Running(t)

\* ------------------------------------------------------------ SpecCache
\* Two triggers of the bots from outside any handler, with Alice's channel
\* message forwarded or with new content; every store access is a suspension
\* point.  The handlers yield nothing.
NextCache ==
    \/ \E bot \in {CacheBot, NoCacheBot}, rewrite_cache \in BOOLEAN,
          request \in {PlainContent(1), MessageContent(AliceChannel)},
          extra \in {{}, {<<1, 1>>}} :
            trigger_bot(bot, request, NoRequest, Alice, AliceChannel, rewrite_cache, extra)
    \/ \E t \in Tasks : TaskStart(t)
    \/ \E t \in Tasks : StoreStep(t)
    \/ \E t \in Tasks : HandlerReturn(t)
    \/ \E t \in Tasks : HandlerRaise(t)

SpecCache == Init /\ [][NextCache]_vars

\* the two tasks have prepared their requests and built the same caching key
SameKey(t1, t2) ==
    /\ Len(tasks[t1].requests) = 1
    /\ Len(tasks[t2].requests) = 1
    /\ tasks[t1].caching_key = tasks[t2].caching_key

\* C1: when a cache-enabled bot is triggered twice with requests of the same
\* cache key and rewrite_cache false, the second time before the first
\* invocation has completed, the handler is executed exactly once, whatever the
\* interleaving of the two tasks at the store accesses.
C1_HandlerExecutedOnce ==
    \A t1 \in Tasks, t2 \in Tasks :
        ( /\ t1 \in tasks[t2].in_flight
          /\ ~bots[tasks[t1].bot].no_cache
          /\ ~tasks[t1].rewrite_cache
          /\ ~tasks[t2].rewrite_cache
          /\ SameKey(t1, t2)
          /\ tasks[t1].pc = "done"
          /\ tasks[t2].pc = "done" )
        => Cardinality({t \in {t1, t2} : tasks[t].handler_ran}) = 1

\* C3: a trigger of a bot with no_cache, or with rewrite_cache=True, runs the
\* handler, also when the cache holds a stream for its caching key.
C3_BypassRunsHandler ==
    \A t \in Tasks :
        ( /\ tasks[t].pc = "done"
          /\ tasks[t].outcome # "failed"
          /\ bots[tasks[t].bot].no_cache \/ tasks[t].rewrite_cache )
        => tasks[t].handler_ran

\* a trigger with rewrite_cache=True has run the handler although an earlier,
\* completed trigger had recorded a stream under the same key; the cache now
\* holds the later stream
C3_Witness ==
    \E t1 \in Tasks, t2 \in Tasks :
        /\ t1 < t2
        /\ t1 \notin tasks[t2].in_flight
        /\ SameKey(t1, t2)
        /\ tasks[t1].handler_ran
        /\ tasks[t2].rewrite_cache
        /\ tasks[t2].handler_ran
        /\ tasks[t2].pc = "done"
        /\ Get(bot_response_cache, tasks[t2].caching_key) = t2

\* ------------------------------------------------------------ SpecRelay
\* Triggers of the cache-enabled bot with Alice's channel message forwarded, on
\* the in-memory store, and the callers of their streams.
NextRelay ==
    \/ \E t \in Tasks : StoreStep(t)
    \/ Quiet /\ trigger_bot(CacheBot, MessageContent(AliceChannel), NoRequest, Alice,
                            AliceChannel, FALSE, {})
    \/ Quiet /\ \E t \in Tasks : TaskStart(t)
    \/ Quiet /\ \E t \in Tasks : yield_interim_response(t)
    \/ Quiet /\ \E t \in Tasks : HandlerReturn(t)
    \/ Quiet /\ \E t \in Tasks : HandlerRaise(t)
    \/ Quiet /\ \E s \in Streams : aiter(s)
    \/ Quiet /\ \E s \in Streams : get_all_responses(s)
    \/ Quiet /\ \E c \in Consumers : ConsumerStep(c)

SpecRelay == Init /\ [][NextRelay]_vars

IsPrefix(a, b) == Len(a) <= Len(b) /\ \A i \in 1 .. Len(a) : a[i] = b[i]

\* the stream that a cache hit has put on the queue of stream s
CachedStreamOf(s) ==
    IF streams[s].cached # None THEN streams[s].cached
    ELSE IF streams[s].queue # <<>> /\ Head(streams[s].queue).type = "stream"
         THEN Head(streams[s].queue).v
         ELSE None

\* the task whose handler produces the messages of stream s
ProducerOf(s) ==
    IF tasks[s].outcome = "relayed" /\ CachedStreamOf(s) # None
    THEN CachedStreamOf(s) ELSE s

\* the messages produced for stream s so far, in production order
Produced(s) == tasks[ProducerOf(s)].yielded

ConsumersOf(s) == {c \in Consumers : consumers[c].stream = s}

\* C2: on a cache hit, with the cached stream complete or still in flight, the
\* new stream gives its consumers the messages of the cached stream, the same
\* objects in the same order, and ends (cleanly or with the error) only when
\* the cached stream has; the handler is not run for the new trigger and no
\* response to its request is created.
C2_CacheHitRelays ==
    \A t \in Tasks :
        tasks[t].outcome = "relayed" =>
            LET u == CachedStreamOf(t)
            IN  /\ u \in Tasks \ {t}
                /\ tasks[u].handler_ran
                /\ ~tasks[t].handler_ran
                /\ tasks[t].yielded = <<>>
                /\ \A m \in DOMAIN messages, i \in 1 .. Len(tasks[t].requests) :
                       messages[m].requesting_msg_uuid # tasks[t].requests[i]
                /\ IsPrefix(streams[t].responses_so_far, tasks[u].yielded)
                /\ \A c \in ConsumersOf(t) :
                       /\ IsPrefix(consumers[c].received, tasks[u].yielded)
                       /\ consumers[c].last = "stop" =>
                              /\ tasks[u].outcome = "returned"
                              /\ consumers[c].received = tasks[u].yielded
                       /\ consumers[c].last = "error" =>
                              /\ tasks[u].outcome = "raised"
                              /\ consumers[c].received = tasks[u].yielded
                              /\ consumers[c].err = streams[u].error

\* a consumer has drained a relaying stream whose trigger came while the cached
\* turn was in flight, and has been given the two messages of the cached stream
C2_Witness ==
    \E t \in Tasks, c \in Consumers :
        /\ tasks[t].outcome = "relayed"
        /\ CachedStreamOf(t) \in tasks[t].in_flight
        /\ consumers[c].stream = t
        /\ consumers[c].last = "stop"
        /\ Len(consumers[c].received) = 2

\* C4: when a handler yields k responses and then raises E, trigger_bot has
\* returned a stream, a consumer of it is given those k messages in yield
\* order, and its attempt after them raises an ErrorWrapper of E: the stream
\* never ends cleanly.
C4_YieldsThenWrappedError ==
    \A t \in Tasks :
        tasks[t].outcome = "raised" =>
            /\ t \in Streams
            /\ \A c \in ConsumersOf(t) :
                   /\ IsPrefix(consumers[c].received, tasks[t].yielded)
                   /\ consumers[c].last # "stop"
                   /\ consumers[c].last = "error" =>
                          /\ consumers[c].received = tasks[t].yielded
                          /\ consumers[c].err \in DOMAIN error_wrappers
                          /\ error_wrappers[consumers[c].err] = HandlerError

\* a consumer was given the two messages its handler yielded and then the error
C4_Witness ==
    \E t \in Tasks, c \in Consumers :
        /\ tasks[t].outcome = "raised"
        /\ Len(tasks[t].yielded) = 2
        /\ consumers[c].stream = t
        /\ consumers[c].received = tasks[t].yielded
        /\ consumers[c].last = "error"

\* the step ends an iteration attempt of consumer c: __anext__ returns or raises
AttemptEnds(c) ==
    /\ consumers'[c] # consumers[c]
    /\ consumers'[c].pc \in {"idle", "finished"}

\* consumer d of the stream of consumer c has observed the terminal error
ErrorObserved(c, d) ==
    /\ consumers[d].stream = consumers[c].stream
    /\ consumers[d].last = "error"

\* C5 (as stated): once a consumer of a stream has observed its terminal error,
\* every later iteration attempt on the stream, by any consumer, new cursor or
\* existing one, raises the same wrapped error object.
C5_EveryLaterAttemptRaises ==
    [][\A c \in Consumers, d \in Consumers :
          (ErrorObserved(c, d) /\ AttemptEnds(c)) =>
              /\ consumers'[c].last = "error"
              /\ consumers'[c].err = consumers[d].err]_vars

\* C5 (amended): once a consumer of a stream has observed its terminal error,
\* an iteration attempt by a cursor that has been given all the retained
\* messages raises the same wrapped error object, and an attempt by a new or
\* lagging cursor returns the retained message at the cursor; no attempt ends
\* cleanly, none adds a message to responses_so_far, and a caller that holds
\* the lock of the stream does not wait.
C5_SameErrorAfterReplay ==
    [][\A c \in Consumers, d \in Consumers :
          ErrorObserved(c, d) =>
              LET s == consumers[c].stream
                  rsf == streams[s].responses_so_far
                  i == consumers[c].index
              IN  /\ streams'[s].responses_so_far = rsf
                  /\ consumers[c].pc = "locked" => ENABLED Locked(c)
                  /\ AttemptEnds(c) =>
                         IF i < Len(rsf)
                         THEN /\ consumers'[c].last = "msg"
                              /\ consumers'[c].received =
                                     Append(consumers[c].received, rsf[CursorSlot(i)])
                         ELSE /\ consumers'[c].last = "error"
                              /\ consumers'[c].err = consumers[d].err]_vars

\* after one consumer has observed the error, another one has replayed the
\* retained message and then been given the same error object
C5_Witness ==
    \E c \in Consumers, d \in Consumers :
        /\ c # d
        /\ ErrorObserved(c, d)
        /\ consumers[c].late
        /\ Len(consumers[c].received) >= 1
        /\ consumers[c].last = "error"
        /\ consumers[c].err = consumers[d].err

\* consumer c is a call of get_all_responses that has returned a list
ReturnedList(c) ==
    /\ consumers[c].mode = "all"
    /\ consumers[c].pc = "finished"
    /\ consumers[c].last = "stop"

\* C7: get_all_responses is idempotent.  Once a call has returned the list of
\* a drained stream, responses_so_far stays what it returned, so that a further
\* call returns the same messages in the same order; a further call does not
\* wait when it holds the lock of the stream, and no step of a caller changes
\* a turn (the handler is not invoked again).
C7_GetAllResponsesIdempotent ==
    [][\A c \in Consumers :
          /\ ReturnedList(c) =>
                 /\ consumers[c].result = streams[consumers[c].stream].responses_so_far
                 /\ streams'[consumers[c].stream].responses_so_far = consumers[c].result
          /\ (consumers[c].late /\ consumers[c].pc = "locked") => ENABLED Locked(c)
          /\ (consumers[c].late /\ ReturnedList(c)') =>
                 consumers'[c].result = streams[consumers[c].stream].responses_so_far
          /\ consumers'[c] # consumers[c] => tasks' = tasks]_vars

\* a second call of get_all_responses, made after a first one had drained the
\* stream, has returned the same two messages
C7_Witness ==
    \E c \in Consumers, d \in Consumers :
        /\ c # d
        /\ consumers[c].stream = consumers[d].stream
        /\ ReturnedList(d)
        /\ ReturnedList(c)
        /\ consumers[c].late
        /\ Len(consumers[c].result) = 2
        /\ consumers[c].result = consumers[d].result

\* C8: however many consumers iterate a stream, started at any time and
\* interleaved in any way, each is given the messages of the stream from the
\* first one on, in production order, none skipped and none repeated, and all
\* of them by the time its iteration stops; responses_so_far retains each
\* produced message once, in production order.
C8_EveryConsumerWholeSequence ==
    \A s \in Streams :
        /\ IsPrefix(streams[s].responses_so_far, Produced(s))
        /\ \A c \in ConsumersOf(s) :
               /\ consumers[c].index = Len(consumers[c].received)
               /\ IsPrefix(consumers[c].received, streams[s].responses_so_far)
               /\ consumers[c].last = "stop" =>
                      /\ consumers[c].received = Produced(s)
                      /\ streams[s].responses_so_far = Produced(s)

\* two consumers that came before the stream had ended have both been given its
\* two messages and then the end of the stream
C8_Witness ==
    \E c \in Consumers, d \in Consumers :
        /\ c # d
        /\ consumers[c].stream = consumers[d].stream
        /\ ~consumers[c].late
        /\ ~consumers[d].late
        /\ consumers[c].last = "stop"
        /\ consumers[d].last = "stop"
        /\ Len(consumers[c].received) = 2
        /\ consumers[d].received = consumers[c].received

\* C19: trigger_bot only schedules the handler: in the state in which it
\* returns the stream, the new turn has executed no step, no request message
\* has been created, nothing has been yielded and the stream is empty.
C19_TriggerOnlySchedules ==
    [][Len(tasks') = Len(tasks) + 1 =>
          LET t == Len(tasks')
          IN  /\ tasks'[t].pc = "start"
              /\ ~tasks'[t].handler_ran
              /\ tasks'[t].requests = <<>>
              /\ tasks'[t].yielded = <<>>
              /\ tasks'[t].outcome = "running"
              /\ Len(streams') = t
              /\ streams'[t].responses_so_far = <<>>
              /\ streams'[t].queue = <<>>
              /\ messages' = messages
              /\ bot_response_cache' = bot_response_cache
              /\ \A u \in Tasks : tasks'[u] = tasks[u]]_vars

\* trigger_bot has returned the stream of a turn that has not started, while
\* an earlier turn has yielded
C19_Witness ==
    \E t \in Tasks, u \in Tasks :
        /\ tasks[t].pc = "start"
        /\ streams[t] = NewStream
        /\ u < t
        /\ Len(tasks[u].yielded) >= 1

\* the messages that wait on the queue of stream s
MsgsQueued(s) ==
    Cardinality({i \in 1 .. Len(streams[s].queue) : streams[s].queue[i].type = "msg"})

\* C20: responses_so_far of a stream is a prefix of the messages the handler
\* has yielded so far, as long as the number of messages pulled from the queue
\* (the yielded ones less those that wait there); it grows by one message, and
\* only when an iteration attempt of a consumer returns a message, and it does
\* not change once the stream has ended or raised its error.
C20_RetainedIsWhatWasPulled ==
    [][\A s \in Streams :
          LET rsf == streams[s].responses_so_far
          IN  /\ IsPrefix(rsf, Produced(s))
              /\ tasks[s].outcome # "relayed" =>
                     Len(rsf) + MsgsQueued(s) = Len(tasks[s].yielded)
              /\ streams'[s].responses_so_far # rsf =>
                     /\ Len(streams'[s].responses_so_far) = Len(rsf) + 1
                     /\ IsPrefix(rsf, streams'[s].responses_so_far)
                     /\ \E c \in Consumers :
                            AttemptEnds(c) /\ consumers'[c].last = "msg"
              /\ (streams[s].closed \/ streams[s].error # None) =>
                     streams'[s].responses_so_far = rsf]_vars

\* the handler has yielded two messages and returned, and one pull has left
\* exactly one message in responses_so_far
C20_Witness ==
    \E s \in Streams :
        /\ tasks[s].outcome = "returned"
        /\ Len(tasks[s].yielded) = 2
        /\ Len(streams[s].responses_so_far) = 1
        /\ MsgsQueued(s) = 1
        /\ \E c \in ConsumersOf(s) : Len(consumers[c].received) = 1

\* ------------------------------------------------------------- SpecLive
\* The turns of SpecRelay and the callers that iterate their streams, with the
\* scheduling of asyncio: a coroutine that can run is run in the end, a handler
\* returns or raises in the end, and the waiters of an asyncio.Lock are woken
\* in turn.
NextLive ==
    \/ \E t \in Tasks : StoreStep(t)
    \/ Quiet /\ trigger_bot(CacheBot, MessageContent(AliceChannel), NoRequest, Alice,
                            AliceChannel, FALSE, {})
    \/ Quiet /\ \E t \in Tasks : TaskStart(t)
    \/ Quiet /\ \E t \in Tasks : yield_interim_response(t)
    \/ Quiet /\ \E t \in Tasks : HandlerReturn(t)
    \/ Quiet /\ \E t \in Tasks : HandlerRaise(t)
    \/ Quiet /\ \E s \in Streams : aiter(s)
    \/ Quiet /\ \E c \in Consumers : ConsumerStep(c)

TurnProgress ==
    \/ \E t \in Tasks : StoreStep(t)
    \/ Quiet /\ \E t \in Tasks : TaskStart(t)
    \/ Quiet /\ \E t \in Tasks : HandlerReturn(t)
    \/ Quiet /\ \E t \in Tasks : HandlerRaise(t)

CallerProgress(c) == Quiet /\ c \in Consumers /\ (Anext(c) \/ Locked(c))

LockGranted(c) == Quiet /\ c \in Consumers /\ Acquire(c)

SpecLive ==
    /\ Init
    /\ [][NextLive]_vars
    /\ WF_vars(TurnProgress)
    /\ \A c \in 1 .. MaxConsumers :
           WF_vars(CallerProgress(c)) /\ SF_vars(LockGranted(c))

\* the end-of-responses sentinel has been put on the queue of stream t
SentinelPut(t) ==
    \/ streams[t].closed
    \/ \E i \in 1 .. Len(streams[t].queue) : streams[t].queue[i] = EndItem

\* C6: the end-of-responses sentinel is put on the queue of every stream that
\* trigger_bot has returned, once the handler has returned or raised, and every
\* consumer of a stream reaches its end, the stop of the iteration or the
\* wrapped error, instead of waiting forever.
C6_SentinelPutConsumersStop ==
    /\ [](\A t \in Tasks : tasks[t].pc = "done" => SentinelPut(t))
    /\ \A t \in 1 .. MaxTasks : (t \in Tasks) ~> (t \in Tasks /\ SentinelPut(t))
    /\ \A c \in 1 .. MaxConsumers :
           (c \in Consumers) ~>
               (c \in Consumers /\ consumers[c].last \in {"stop", "error"})

\* a consumer that came before the stream had ended has been given all its
\* messages and then the end of the stream, the handler having returned
C6_Witness ==
    \E c \in Consumers :
        /\ ~consumers[c].late
        /\ consumers[c].last = "stop"
        /\ tasks[ProducerOf(consumers[c].stream)].outcome = "returned"
        /\ Len(consumers[c].received) = MaxYields
        /\ SentinelPut(ProducerOf(consumers[c].stream))

\* ------------------------------------------------------------ SpecChain
\* Turns of the two bots, triggered by Alice in her channel or with the default
\* user and the default context, that answer with interim and final responses;
\* every store access is a suspension point.
NextChain ==
    \/ \E bot \in {CacheBot, NoCacheBot}, sender \in {None, Alice},
          ctx \in {None, AliceChannel} :
            trigger_bot(bot, PlainContent(1), NoRequest, sender, ctx, FALSE, {})
    \/ \E t \in Tasks : TaskStart(t)
    \/ \E t \in Tasks : DefaultsStep(t)
    \/ \E t \in Tasks : StoreStep(t)
    \/ \E t \in Tasks : yield_interim_response(t)
    \/ \E t \in Tasks : yield_final_response(t)
    \/ \E t \in Tasks : HandlerReturn(t)

SpecChain == Init /\ [][NextChain]_vars

\* C10 (as stated): the goes_after of a message, when set, is a message with
\* the same sender, the same receiver and the same parent context: never one
\* sent in the opposite direction or in another context.
C10_GoesAfterSameDirection ==
    \A m \in DOMAIN messages :
        messages[m].prev_msg_uuid # None =>
            LET p == messages[m].prev_msg_uuid
            IN  /\ p \in DOMAIN messages
                /\ messages[p].sender = messages[m].sender
                /\ messages[p].receiver = messages[m].receiver
                /\ messages[p].parent_ctx_msg_uuid = messages[m].parent_ctx_msg_uuid

\* C10 (amended): the goes_after of a message, when set, is a registered
\* message of the same parent context between the same two participants, sent
\* in either direction; it is never a message of another context or of another
\* pair of participants, and never the message itself.
C10_GoesAfterSameChat ==
    \A m \in DOMAIN messages :
        messages[m].prev_msg_uuid # None =>
            LET p == messages[m].prev_msg_uuid
            IN  /\ p \in DOMAIN messages \ {m}
                /\ {messages[p].sender, messages[p].receiver} =
                       {messages[m].sender, messages[m].receiver}
                /\ messages[p].parent_ctx_msg_uuid = messages[m].parent_ctx_msg_uuid

\* the response of a bot goes after the request it answers, a message sent in
\* the opposite direction
C10_Witness ==
    \E m \in DOMAIN messages :
        /\ messages[m].prev_msg_uuid # None
        /\ messages[m].prev_msg_uuid = messages[m].requesting_msg_uuid
        /\ messages[messages[m].prev_msg_uuid].sender = messages[m].receiver
        /\ messages[messages[m].prev_msg_uuid].receiver = messages[m].sender
        /\ messages[m].sender # messages[m].receiver

\* -------------------------------------------------------------- SpecSeq
\* Turns that follow one another: a bot is triggered when the turns before it
\* are over, so that the calls of create_next_message come one after the other
\* and a message created later has the greater uuid.
NextSeq ==
    \/ /\ \A t \in Tasks : tasks[t].pc = "done"
       /\ \E bot \in {CacheBot, NoCacheBot}, sender \in {None, Alice},
             ctx \in {None, AliceChannel},
             request \in {PlainContent(1), MessageContent(AliceChannel)} :
               trigger_bot(bot, request, NoRequest, sender, ctx, FALSE, {})
    \/ \E t \in Tasks : TaskStart(t)
    \/ \E t \in Tasks : DefaultsStep(t)
    \/ \E t \in Tasks : StoreStep(t)
    \/ \E t \in Tasks : yield_interim_response(t)
    \/ \E t \in Tasks : yield_final_response(t)
    \/ \E t \in Tasks : HandlerReturn(t)

SpecSeq == Init /\ [][NextSeq]_vars

\* the messages that create_next_message has created
Created == {m \in DOMAIN messages : m >= FirstFreshUuid}

\* the messages created before m from the same sender to the same receiver in
\* the same parent context
EarlierSameTriple(m) ==
    {x \in Created :
        /\ x < m
        /\ messages[x].sender = messages[m].sender
        /\ messages[x].receiver = messages[m].receiver
        /\ messages[x].parent_ctx_msg_uuid = messages[m].parent_ctx_msg_uuid}

\* the messages created before m between the same two participants, in either
\* direction, in the same parent context
EarlierSameChat(m) ==
    {x \in Created :
        /\ x < m
        /\ {messages[x].sender, messages[x].receiver} =
               {messages[m].sender, messages[m].receiver}
        /\ messages[x].parent_ctx_msg_uuid = messages[m].parent_ctx_msg_uuid}

\* the message of the set that was created last
Last(set) == CHOOSE x \in set : \A y \in set : y <= x

\* C9 (as stated): for a fixed (parent_context, sender, receiver), the messages
\* of successive create_next_message calls form one chain: the first has no
\* goes_after, and the goes_after of each later one is the message created by
\* the call before it for that triple.
C9_ChainPerTriple ==
    \A m \in Created :
        messages[m].prev_msg_uuid =
            IF EarlierSameTriple(m) = {} THEN None ELSE Last(EarlierSameTriple(m))

\* C9 (amended): for a fixed parent context and a fixed pair of participants,
\* whichever of the two is the sender, the messages of successive
\* create_next_message calls form one chain: the first has no goes_after, and
\* the goes_after of each later one is the message created by the call before
\* it for that context and pair.
C9_ChainPerChat ==
    \A m \in Created :
        messages[m].prev_msg_uuid =
            IF EarlierSameChat(m) = {} THEN None ELSE Last(EarlierSameChat(m))

\* a chat of four messages, requests and responses of two turns, in one chain
C9_Witness ==
    \E m \in Created :
        /\ Cardinality(EarlierSameChat(m)) = 3
        /\ EarlierSameTriple(m) # {}
        /\ messages[m].prev_msg_uuid = Last(EarlierSameChat(m))
        /\ messages[m].prev_msg_uuid # Last(EarlierSameTriple(m))

\* ---------------------------------------------------------- SpecForward
\* Turns on the in-memory store whose request is a message of the store: the
\* channel message, the request of an earlier turn or one of its responses.
NextForward ==
    \/ \E t \in Tasks : StoreStep(t)
    \/ Quiet /\ \E bot \in {CacheBot, NoCacheBot}, m \in DOMAIN messages :
                    trigger_bot(bot, MessageContent(m), NoRequest, Alice, AliceChannel, FALSE, {})
    \/ Quiet /\ \E t \in Tasks : TaskStart(t)
    \/ Quiet /\ \E t \in Tasks : yield_final_response(t)
    \/ Quiet /\ \E t \in Tasks : HandlerReturn(t)

SpecForward == Init /\ [][NextForward]_vars

\* C11: the original_message of every ForwardedMessage is an OriginalMessage: a
\* message created with a ForwardedMessage as its content points at the
\* ultimate original, never at the intermediate forward.
C11_ForwardPointsAtOriginal ==
    \A m \in DOMAIN messages :
        messages[m].kind = "forwarded" =>
            /\ messages[m].original_message \in DOMAIN messages
            /\ messages[messages[m].original_message].kind = "original"

\* ------------------------------------------------------------ SpecApi
\* The calls of the API by a caller that is no handler, each awaited to its end
\* with the in-memory store, and the turns the calls of trigger_bot schedule.
NextApi ==
    \/ \E t \in Tasks : StoreStep(t)
    \/ Quiet /\ \E alias \in {CacheBot, NewAlias}, name \in {None, OtherName},
                    no_cache \in BOOLEAN, single_turn \in {None, NewHandler} :
                    create_bot_async(alias, name, no_cache, single_turn)
    \/ Quiet /\ \E name \in {OtherName}, uuid \in {None, Alice} : create_user(name, uuid)
    \/ Quiet /\ \E channel_type \in {1, 2}, channel_id \in {1, 2},
                    user_display_name \in {AliceName, OtherName} :
                    find_or_create_user_channel(channel_type, channel_id,
                                                user_display_name)
    \/ Quiet /\ \E bot \in DOMAIN bots, requests \in {NoRequest, PlainContent(2)} :
                    trigger_bot(bot, PlainContent(1), requests, Alice, AliceChannel,
                                FALSE, {})
    \/ Quiet /\ \E t \in Tasks : TaskStart(t)
    \/ Quiet /\ \E t \in Tasks : HandlerReturn(t)

SpecApi == Init /\ [][NextApi]_vars

\* a call of the API has returned or raised in this step
Called(op) == Len(calls') = Len(calls) + 1 /\ calls'[Len(calls')].op = op

\* the call that has returned or raised in this step
TheCall == calls'[Len(calls')]

\* C12: a call of create_bot_async with an alias that is already registered
\* raises BotAliasTakenError and changes nothing: the bot found under the
\* alias, its fields and the handler table are as before.
C12_TakenAliasRaisesBotAliasTaken ==
    [][(Called("create_bot_async") /\ TheCall.args[1] \in DOMAIN bot_by_alias) =>
          /\ TheCall.err = BotAliasTakenError
          /\ bot_by_alias' = bot_by_alias
          /\ bots' = bots
          /\ single_turn_handlers' = single_turn_handlers]_vars

\* the calls of find_or_create_user_channel that have returned
ChannelCalls == {i \in 1 .. Len(calls) : calls[i].op = "find_or_create_user_channel"}

\* the (channel_type, channel_id) of call i
PairOf(i) == <<calls[i].args[1], calls[i].args[2]>>

\* the user that owns the message call i returned
Owner(i) == messages[calls[i].ret].sender

\* C13: find_or_create_user_channel is idempotent per (channel_type,
\* channel_id): a later call with the same pair returns the same message with
\* the same owning user, whose name stays the display name of the call that
\* created the channel whatever name is passed later; calls with different pairs
\* return distinct messages with distinct owning users.
C13_ChannelPerTypeAndId ==
    \A i \in ChannelCalls :
        /\ calls[i].err = None
        /\ calls[i].ret \in DOMAIN messages
        /\ Owner(i) \in DOMAIN users
        /\ IF PairOf(i) = <<1, 1>>
           THEN calls[i].ret = AliceChannel /\ users[Owner(i)].name = AliceName
           ELSE LET first == CHOOSE k \in ChannelCalls :
                                 /\ PairOf(k) = PairOf(i)
                                 /\ \A l \in ChannelCalls : PairOf(l) = PairOf(i) => k <= l
                IN  /\ calls[i].ret = calls[first].ret
                    /\ users[Owner(i)].name = calls[first].args[3]
        /\ \A j \in ChannelCalls :
              /\ PairOf(j) = PairOf(i) => calls[j].ret = calls[i].ret /\ Owner(j) = Owner(i)
              /\ PairOf(j) # PairOf(i) => calls[j].ret # calls[i].ret /\ Owner(j) # Owner(i)

\* two calls with the same pair and different display names have returned, the
\* first of which created the channel
C13_Witness ==
    \E i, j \in ChannelCalls :
        /\ i < j
        /\ PairOf(i) = PairOf(j)
        /\ PairOf(i) # <<1, 1>>
        /\ calls[i].args[3] # calls[j].args[3]
        /\ calls[j].ret = calls[i].ret

\* every key of the store before is a key of the store after, with the same value
WriteOnce(before, after) ==
    \A k \in DOMAIN before : k \in DOMAIN after /\ after[k] = before[k]

Scheduled == Len(tasks') = Len(tasks) + 1

\* the coroutine scheduled in this step
TheTask == tasks'[Len(tasks')]

\* C15: trigger_bot on a bot that has no handler in the local handler table
\* raises to its caller at once: no coroutine is scheduled for such a bot and
\* no stream is made, and the call that raises creates no message and writes
\* no cache entry.
C15_NoHandlerRaisesToCaller ==
    [][/\ Scheduled => TheTask.bot \in DOMAIN single_turn_handlers
       /\ (Called("trigger_bot") /\ TheCall.err = KeyError) =>
             /\ TheCall.args[1] \notin DOMAIN single_turn_handlers
             /\ UNCHANGED <<tasks, streams, messages, latest_message_in_chat,
                            bot_response_cache>>]_vars

\* trigger_bot was called on a registered bot that has no handler, and raised
C15_Witness ==
    \E i \in 1 .. Len(calls) :
        /\ calls[i].op = "trigger_bot"
        /\ calls[i].args[1] \in DOMAIN bots
        /\ calls[i].args[1] \notin DOMAIN single_turn_handlers
        /\ calls[i].err = KeyError

\* C16: trigger_bot called with both request and requests is rejected with an
\* error before a coroutine is scheduled: no coroutine is ever scheduled by
\* such a call, so no handler runs for it, and the call that raises registers
\* no message and leaves the latest-message pointers and the cache as they were.
C16_BothArgumentsRejected ==
    [][/\ Scheduled =>
             ~(TheTask.given_request # NoRequest /\ TheTask.given_requests # NoRequest)
       /\ (Called("trigger_bot") /\ TheCall.err = BothGivenError) =>
             /\ TheCall.args[2] # NoRequest
             /\ TheCall.args[3] # NoRequest
             /\ UNCHANGED <<tasks, streams, messages, latest_message_in_chat,
                            bot_response_cache>>]_vars

\* trigger_bot was called with both arguments on a bot that has a handler, and
\* raised
C16_Witness ==
    \E i \in 1 .. Len(calls) :
        /\ calls[i].op = "trigger_bot"
        /\ calls[i].args[1] \in DOMAIN single_turn_handlers
        /\ calls[i].args[2] # NoRequest
        /\ calls[i].args[3] # NoRequest
        /\ calls[i].err = BothGivenError

\* ------------------------------------------------------------ SpecNested
\* Handlers that trigger other bots, interleaved at every store access with the
\* turns that callers outside any handler trigger.
NextNested ==
    \/ \E bot \in {CacheBot, NoCacheBot}, given \in {None, Alice} :
          trigger_bot(bot, PlainContent(1), NoRequest, given,
                      IF given = None THEN None ELSE AliceChannel, FALSE, {})
    \/ \E h \in Tasks, bot \in {CacheBot, NoCacheBot},
          override_sender \in {None, Alice}, override_parent_ctx \in {None, AliceChannel} :
          trigger_bot_from_handler(h, bot, PlainContent(2), NoRequest, override_sender,
                                   override_parent_ctx, FALSE, {})
    \/ \E t \in Tasks : TaskStart(t)
    \/ \E t \in Tasks : DefaultsStep(t)
    \/ \E t \in Tasks : StoreStep(t)
    \/ \E t \in Tasks : HandlerReturn(t)

SpecNested == Init /\ [][NextNested]_vars

\* the value of an argument that was given, or else the default
Or(given, default) == IF given # None THEN given ELSE default

\* C17: whatever other handlers run concurrently, a turn triggered from inside
\* the handler of task h gets the sender and the parent context that were given
\* explicitly, and for those not given the bot of h and the concluding request
\* of h; a turn triggered outside any handler gets only what was given; and the
\* request of the turn is prepared with that sender and that parent context
\* (the default user and the default context where there is none).
C17_InheritsFromOwnHandler ==
    \A t \in Tasks :
        LET l == tasks[t]
            h == l.caller
        IN  /\ h # MainTask =>
                 /\ l.override_sender = Or(l.given_sender, tasks[h].bot)
                 /\ l.override_parent_ctx = Or(l.given_parent_ctx, concluding_request(h))
            /\ h = MainTask =>
                 /\ l.override_sender = l.given_sender
                 /\ l.override_parent_ctx = l.given_parent_ctx
            /\ l.requests # <<>> =>
                 /\ messages[l.requests[1]].sender =
                       Or(l.override_sender, DEFAULT_USER_UUID)
                 /\ messages[l.requests[1]].parent_ctx_msg_uuid =
                       Or(l.override_parent_ctx, DEFAULT_MSG_CTX_UUID)

\* the handler of h has triggered a turn without overrides whose request is
\* prepared, while the handler of another bot, triggered outside any handler
\* before that, is running too
C17_Witness ==
    \E h, t, o \in Tasks :
        /\ tasks[t].caller = h
        /\ tasks[t].given_sender = None
        /\ tasks[t].given_parent_ctx = None
        /\ tasks[t].requests # <<>>
        /\ tasks[h].pc = "handler"
        /\ o < t
        /\ o # h
        /\ tasks[o].caller = MainTask
        /\ tasks[o].bot # tasks[h].bot
        /\ tasks[o].pc = "handler"
        /\ _current_context[o] = o
        /\ _current_context[h] = h

\* ------------------------------------------------------------ SpecCtx
\* with statements on SingleTurnContext objects, properly nested, in one task
\* that is no handler.
NextCtx ==
    \/ \E ctx \in {1, 2} : __enter__(ctx)
    \/ __exit__

SpecCtx == Init /\ [][NextCtx]_vars

\* C18: in a properly nested sequence of enters and exits in one task, also
\* when a context is entered while another one is installed, each exit
\* succeeds and restores the ambient context to what it was just before the
\* matching enter.
C18_ExitRestoresAmbient ==
    [][Called("__exit__") =>
          /\ TheCall.err = None
          /\ _current_context'[MainTask] = TheCall.args[2]]_vars

\* the messages on the queue of stream s, in the order they were put
QueuedMsgs(s) ==
    LET msgs == SelectSeq(streams[s].queue, LAMBDA item : item.type = "msg")
    IN  [i \in 1 .. Len(msgs) |-> msgs[i].v]

\* C24: every message yield_response has created in a turn is registered, is
\* from the bot of the turn to the sender of the concluding request, in the
\* parent context of the concluding request and in response to it, and is on
\* the stream of the turn, in the order of the calls that returned it.
C24_YieldedReplyToConcludingRequest ==
    \A t \in Tasks :
        /\ \A i \in 1 .. Len(tasks[t].yielded) :
              LET m == tasks[t].yielded[i]
                  req == concluding_request(t)
              IN  /\ m \in DOMAIN messages
                  /\ messages[m].sender = tasks[t].bot
                  /\ messages[m].receiver = messages[req].sender
                  /\ messages[m].parent_ctx_msg_uuid = messages[req].parent_ctx_msg_uuid
                  /\ messages[m].requesting_msg_uuid = req
        /\ streams[t].responses_so_far \o QueuedMsgs(t) = tasks[t].yielded

\* a turn triggered without a sender has yielded twice: its replies go to the
\* default user, in the default context
C24_Witness ==
    \E t \in Tasks :
        /\ tasks[t].override_sender = None
        /\ tasks[t].override_parent_ctx = None
        /\ Len(tasks[t].yielded) = 2
        /\ messages[tasks[t].yielded[2]].receiver = DEFAULT_USER_UUID
        /\ messages[tasks[t].yielded[2]].parent_ctx_msg_uuid = DEFAULT_MSG_CTX_UUID

\* ------------------------------------------------------------ SpecEcho
\* Two handlers on the in-memory store: the handler of CacheBot answers with
\* final responses only, the handler of NoCacheBot with interim responses only.
NextEcho ==
    \/ \E t \in Tasks : StoreStep(t)
    \/ Quiet /\ \E bot \in {CacheBot, NoCacheBot}, request \in {PlainContent(1), PlainContent(2)} :
                    trigger_bot(bot, request, NoRequest, Alice, AliceChannel, FALSE, {})
    \/ Quiet /\ \E t \in Tasks : TaskStart(t)
    \/ Quiet /\ \E t \in Tasks : tasks[t].bot = CacheBot /\ yield_final_response(t)
    \/ Quiet /\ \E t \in Tasks : tasks[t].bot = NoCacheBot /\ yield_interim_response(t)
    \/ Quiet /\ \E t \in Tasks : HandlerReturn(t)

SpecEcho == Init /\ [][NextEcho]_vars

\* C30: every message of a handler that calls yield_interim_response only has
\* still_thinking true, every message of a handler that calls
\* yield_final_response only has still_thinking false, and a handler that made
\* one yield_final_response call and returned has put on its stream exactly
\* that one message, with still_thinking false, and then the end of the stream.
C30_WrappersFixStillThinking ==
    \A t \in Tasks :
        /\ \A i \in 1 .. Len(tasks[t].yielded) :
              messages[tasks[t].yielded[i]].still_thinking =
                  IF tasks[t].bot = CacheBot THEN "False" ELSE "True"
        /\ (/\ tasks[t].bot = CacheBot
            /\ tasks[t].outcome = "returned"
            /\ Len(tasks[t].yielded) = 1) =>
              /\ streams[t].queue = <<MsgItem(tasks[t].yielded[1]), EndItem>>
              /\ messages[tasks[t].yielded[1]].still_thinking = "False"

\* the handler of CacheBot has made one yield_final_response call and returned,
\* and the handler of NoCacheBot has made a yield_interim_response call
C30_Witness ==
    \E t, u \in Tasks :
        /\ tasks[t].bot = CacheBot
        /\ tasks[t].outcome = "returned"
        /\ Len(tasks[t].yielded) = 1
        /\ tasks[u].bot = NoCacheBot
        /\ Len(tasks[u].yielded) >= 1

\* C25: a consumer of a stream is given the responses of the handler in the
\* order of its yield_response calls, each once: what it has been given is at
\* every moment the first so many of them; it has been given all of them when
\* it observes the end of the stream or the error of the handler, and none is
\* given to it after that; the queue hands the responses out in the order of
\* the calls.
C25_YieldOrderExactlyOnce ==
    [][\A c \in Consumers :
          LET s == consumers[c].stream
          IN  /\ IsPrefix(consumers'[c].received, Produced(s)')
              /\ consumers'[c].last \in {"stop", "error"} =>
                    consumers'[c].received = Produced(s)'
              /\ consumers[c].last \in {"stop", "error"} =>
                    consumers'[c].received = consumers[c].received
              /\ tasks[s].handler_ran =>
                    streams[s].responses_so_far \o QueuedMsgs(s) = tasks[s].yielded]_vars

\* a consumer that iterates the stream of a turn whose handler ran, and that
\* came before any caller had seen the end of the stream, has been given the
\* two responses of the handler in the order of the calls and then the end
C25_Witness ==
    \E c \in Consumers :
        LET s == consumers[c].stream
        IN  /\ consumers[c].mode = "iter"
            /\ tasks[s].handler_ran
            /\ tasks[s].outcome = "returned"
            /\ Len(tasks[s].yielded) = 2
            /\ consumers[c].received = tasks[s].yielded
            /\ consumers[c].last = "stop"
            /\ ~consumers[c].late

\* C27: a handler error is not retried.  When the handler of the cache-enabled
\* bot has raised, a turn of the same cache key that is triggered after that
\* (rewrite_cache false) does not run the handler and creates no response; a
\* consumer of its stream is given the messages the failed handler had yielded,
\* in their order, and then the very ErrorWrapper the cached stream holds: its
\* stream never ends cleanly.
C27_HandlerErrorNotRetried ==
    \A t, u \in Tasks :
        (/\ t < u
         /\ tasks[t].outcome = "raised"
         /\ t \notin tasks[u].in_flight
         /\ ~tasks[u].rewrite_cache
         /\ tasks[u].pc = "done"
         /\ SameKey(t, u)) =>
            /\ ~tasks[u].handler_ran
            /\ tasks[u].yielded = <<>>
            /\ tasks[u].outcome = "relayed"
            /\ \A c \in ConsumersOf(u) :
                  /\ IsPrefix(consumers[c].received, tasks[t].yielded)
                  /\ consumers[c].last # "stop"
                  /\ consumers[c].last = "error" =>
                        /\ consumers[c].received = tasks[t].yielded
                        /\ consumers[c].err = streams[t].error
                        /\ error_wrappers[consumers[c].err] = HandlerError

\* the handler yielded once and raised; a turn of the same key triggered after
\* that has relayed, and a consumer of its stream was given the message and the
\* error
C27_Witness ==
    \E t, u \in Tasks, c \in Consumers :
        /\ t < u
        /\ tasks[t].outcome = "raised"
        /\ Len(tasks[t].yielded) = 1
        /\ t \notin tasks[u].in_flight
        /\ tasks[u].outcome = "relayed"
        /\ consumers[c].stream = u
        /\ consumers[c].last = "error"
        /\ consumers[c].received = tasks[t].yielded

\* ------------------------------------------------------------ SpecNoWait
\* Handlers that wait for nothing outside, on the in-memory store: a turn that
\* the event loop has started runs to its end before any other coroutine is
\* resumed.  The loop runs every scheduled turn in the end; nothing makes the
\* callers iterate the streams.
Idle == \A t \in Tasks : tasks[t].pc \in {"start", "done"}

NextNoWait ==
    \/ \E t \in Tasks : StoreStep(t)
    \/ \E t \in Tasks : yield_interim_response(t)
    \/ \E t \in Tasks : HandlerReturn(t)
    \/ \E t \in Tasks : HandlerRaise(t)
    \/ Idle /\ \E t \in Tasks : TaskStart(t)
    \/ Idle /\ \E request \in {PlainContent(1), PlainContent(2)} :
                   trigger_bot(CacheBot, request, NoRequest, Alice, AliceChannel, FALSE, {})
    \/ Idle /\ \E s \in Streams : aiter(s)
    \/ Idle /\ \E c \in Consumers : ConsumerStep(c)

\* the steps of the turns
TurnRuns ==
    \/ \E t \in Tasks : StoreStep(t)
    \/ \E t \in Tasks : yield_interim_response(t)
    \/ \E t \in Tasks : HandlerReturn(t)
    \/ \E t \in Tasks : HandlerRaise(t)
    \/ Idle /\ \E t \in Tasks : TaskStart(t)

SpecNoWait == Init /\ [][NextNoWait]_vars /\ WF_vars(TurnRuns)

\* the streams that a consumer iterates, and the streams those relay
Iterated == {consumers[c].stream : c \in Consumers}
                \cup {ProducerOf(consumers[c].stream) : c \in Consumers}

\* C28: the progress of a handler does not depend on consumers.  Every turn
\* that was triggered runs to its end, with no caller iterating its stream, as
\* a put on the queue never waits; the error of a handler whose stream nobody
\* iterates stays on the queue and is raised to no caller; and when a consumer
\* has been given a first response of a handler that waits for nothing outside,
\* that handler has executed all its steps.
C28_HandlerProgressWithoutConsumers ==
    /\ \A t \in 1 .. MaxTasks : (t \in Tasks) ~> (t \in Tasks /\ tasks[t].pc = "done")
    /\ [](\A t \in Tasks :
             (tasks[t].outcome = "raised" /\ t \notin Iterated) =>
                 /\ streams[t].error = None
                 /\ \E i \in 1 .. Len(streams[t].queue) :
                       streams[t].queue[i] = ExcItem(HandlerError)
                 /\ \A c \in Consumers :
                       consumers[c].err # None =>
                           streams[ProducerOf(consumers[c].stream)].error = consumers[c].err)
    /\ [](\A c \in Consumers :
             consumers[c].received # <<>> =>
                 tasks[ProducerOf(consumers[c].stream)].pc = "done")

\* a handler has yielded twice and raised, and nobody iterates its stream;
\* another handler has yielded twice and returned, and a consumer of its stream
\* has pulled the first response only
C28_Witness ==
    \E t, u \in Tasks, c \in Consumers :
        /\ tasks[t].outcome = "raised"
        /\ Len(tasks[t].yielded) = 2
        /\ t \notin Iterated
        /\ consumers[c].stream = u
        /\ tasks[u].outcome = "returned"
        /\ Len(tasks[u].yielded) = 2
        /\ Len(consumers[c].received) = 1

\* ---------------------------------------------------------------- C23
\* the create_next_message of task t has got past get_default_user and
\* get_default_msg_ctx
DefaultsResolved(t) ==
    tasks[t].pc \in {"get_latest", "register_message", "set_latest", "handler"}

\* C23 (as stated): the default user and the default context are created at
\* most once, under their fixed identifiers, and in any interleaving every call
\* that needs them succeeds and gets the one default user and the one default
\* context: no call fails because the object exists already.
C23_DefaultsCreatedOnceForAll ==
    /\ default_user \in {None, DEFAULT_USER_UUID}
    /\ default_msg_ctx \in {None, DEFAULT_MSG_CTX_UUID}
    /\ \A t \in Tasks :
          /\ \A i \in 1 .. Len(streams[t].queue) :
                streams[t].queue[i] # ExcItem(KeyExistsError)
          /\ DefaultsResolved(t) =>
                /\ tasks[t].override_sender = None => tasks[t].c_sender = DEFAULT_USER_UUID
                /\ tasks[t].override_parent_ctx = None => tasks[t].c_ctx = DEFAULT_MSG_CTX_UUID

\* ------------------------------------------------------------- SpecStill
\* Turns on the in-memory store whose handlers call yield_response with new
\* content or with a response of the turn, and with still_thinking given or not.
StillThinking == {"None", "True", "False"}

\* the responses task t has yielded
YieldedBy(t) == {tasks[t].yielded[i] : i \in 1 .. Len(tasks[t].yielded)}

NextStill ==
    \/ \E t \in Tasks : StoreStep(t)
    \/ Quiet /\ trigger_bot(NoCacheBot, PlainContent(1), NoRequest, Alice, AliceChannel, FALSE, {})
    \/ Quiet /\ \E t \in Tasks : TaskStart(t)
    \/ Quiet /\ \E t \in Tasks, still_thinking \in StillThinking :
                    yield_response(t, still_thinking)
    \/ Quiet /\ \E t \in Tasks : \E m \in YieldedBy(t), still_thinking \in StillThinking :
                    yield_content(t, MessageContent(m), still_thinking)
    \/ Quiet /\ \E t \in Tasks : HandlerReturn(t)

SpecStill == Init /\ [][NextStill]_vars

\* the replies to the concluding request of task t that the store holds
Replies(t) ==
    {m \in DOMAIN messages : messages[m].requesting_msg_uuid = concluding_request(t)}

RequestsToBots == {m \in DOMAIN messages : messages[m].receiver \in DOMAIN bots}

NextReplay ==
    \/ \E t \in Tasks : StoreStep(t)
    \/ Quiet /\ Len(tasks) < MaxTasks + MaxReplays
             /\ \E request \in {PlainContent(1)} \cup {MessageContent(m) : m \in RequestsToBots} :
                    trigger_bot_in(MainTask, CacheBot, request, NoRequest, Alice, AliceChannel, FALSE, {})
    \/ Quiet /\ \E t \in Tasks : TaskStart(t)
    \/ Quiet /\ calls = <<>>
             /\ \E uuid \in RequestsToBots \cup {AliceChannel, Alice, uuid4_of_call(1)} :
                    replay(uuid)
    \/ Quiet /\ \E t \in Tasks : ReplayStart(t)
    \/ Quiet /\ \E t \in Tasks : yield_final_response(t)
    \/ Quiet /\ \E t \in Tasks : HandlerReturn(t)

SpecReplay == Init /\ [][NextReplay]_vars

\* task u was triggered, with rewrite_cache false, after the replay t of a
\* request to a cache-enabled bot has stored its stream, for the same bot and
\* with the replayed request as its single request
TriggeredAfterReplay(t, u) ==
    /\ t \in Replays
    /\ u \notin Replays
    /\ t < u
    /\ t \notin tasks[u].in_flight
    /\ tasks[t].handler_ran
    /\ tasks[u].bot = tasks[t].bot
    /\ ~bots[tasks[u].bot].no_cache
    /\ ~tasks[u].rewrite_cache
    /\ tasks[u].request = tasks[t].request
    /\ tasks[u].extra = messages[tasks[t].request.v].extra_fields
    /\ tasks[u].pc = "done"

\* C21 (as stated): replay stores its stream under the caching key trigger_bot
\* builds for the bot and the one request: a trigger of the same cache-enabled
\* bot with the same request, rewrite_cache false, after a replay is answered by
\* relaying the stream of the replay, and its handler is not run.
C21_ReplayStoresUnderTriggerKey ==
    \A t, u \in Tasks :
        /\ (t \in Replays /\ tasks[t].pc \in {"set_cache", "handler", "done"}) =>
              tasks[t].caching_key =
                  TriggerKey(bots[tasks[t].bot].alias, messages[tasks[t].request.v])
        /\ TriggeredAfterReplay(t, u) =>
              /\ tasks[u].outcome = "relayed"
              /\ ~tasks[u].handler_ran
              /\ streams[u].queue = <<StreamItem(t), EndItem>>

\* ----------------------------------------------------------- SpecHistory
\* get_full_conversation, applied to the messages of a chat between Alice and
\* a bot: a chain of MaxChain messages at most, each marked invisible to bots
\* or not, every max_length up to one more than the chain and None.
MaxChain == 3

\* max_length is None
NoMaxLength == [given |-> FALSE, n |-> 0]

\* max_length is the integer n
MaxLength(n) == [given |-> TRUE, n |-> n]

\* the i-th message of the chat, from Alice to the bot and back in turns
ChainMessage(i, invisible_to_bots) ==
    [kind                |-> "original",
     sender              |-> IF i % 2 = 1 THEN Alice ELSE CacheBot,
     receiver            |-> IF i % 2 = 1 THEN CacheBot ELSE Alice,
     still_thinking      |-> "False",
     parent_ctx_msg_uuid |-> AliceChannel,
     requesting_msg_uuid |-> None,
     prev_msg_uuid       |-> IF i = 1 THEN None ELSE FirstFreshUuid + i - 2,
     invisible_to_bots   |-> invisible_to_bots,
     original_message    |-> FirstFreshUuid + i - 1,
     content             |-> i,
     extra_fields        |-> {}]

Reverse(s) == [i \in 1 .. Len(s) |-> s[Len(s) + 1 - i]]

\* the while loop of get_conversation_history
RECURSIVE HistoryLoop(_, _, _, _)
HistoryLoop(msg, history, max_length, include_invisible_to_bots) ==
    IF msg # None /\ (~max_length.given \/ Len(history) < max_length.n)
    THEN HistoryLoop(messages[msg].prev_msg_uuid,
                     IF include_invisible_to_bots \/ ~messages[msg].invisible_to_bots
                     THEN Append(history, msg) ELSE history,
                     max_length, include_invisible_to_bots)
    ELSE history

get_conversation_history(self, max_length, include_invisible_to_bots) ==
    Reverse(HistoryLoop(messages[self].prev_msg_uuid, <<>>, max_length,
                        include_invisible_to_bots))

get_full_conversation(self, max_length, include_invisible_to_bots) ==
    LET result == get_conversation_history(self,
                      IF max_length.given THEN MaxLength(max_length.n - 1) ELSE max_length,
                      include_invisible_to_bots)
    IN  IF include_invisible_to_bots \/ ~messages[self].invisible_to_bots
        THEN Append(result, self)
        ELSE result

\* SingleTurnContext.get_full_conversation, called for concluding request m
GetFullConversation(m, max_length, include_invisible_to_bots) ==
    /\ Len(calls) < MaxCalls
    /\ Return("get_full_conversation", <<m, max_length, include_invisible_to_bots>>,
              get_full_conversation(m, max_length, include_invisible_to_bots))
    /\ UNCHANGED <<storeVars, tasks, streams, error_wrappers, consumers,
                   bot_by_alias, channel_by_type_and_id, callers, ctxVars>>

InitHistory ==
    /\ bots = [b \in {CacheBot, NoCacheBot} |->
                 [alias |-> b, name |-> b, no_cache |-> (b = NoCacheBot)]]
    /\ single_turn_handlers = [b \in {CacheBot, NoCacheBot} |-> b]
    /\ users = [u \in {Alice} |-> [name |-> AliceName]]
    /\ \E n \in 1 .. MaxChain : \E invisible \in [1 .. n -> BOOLEAN] :
          messages = [m \in FirstFreshUuid .. FirstFreshUuid + n - 1 |->
                        ChainMessage(m - FirstFreshUuid + 1,
                                     invisible[m - FirstFreshUuid + 1])]
    /\ latest_message_in_chat = EmptyDict
    /\ bot_response_cache = EmptyDict
    /\ default_user = None
    /\ default_msg_ctx = None
    /\ tasks = <<>>
    /\ streams = <<>>
    /\ error_wrappers = <<>>
    /\ consumers = <<>>
    /\ bot_by_alias = [a \in {CacheBot, NoCacheBot} |-> a]
    /\ channel_by_type_and_id = EmptyDict
    /\ calls = <<>>
    /\ callers = <<>>
    /\ _current_context = [k \in {MainTask} |-> None]
    /\ _previous_ctx_token = [k \in {MainTask} |-> NoToken]
    /\ tokens = [k \in {MainTask} |-> <<>>]
    /\ with_blocks = [k \in {MainTask} |-> <<>>]

NextHistory ==
    \E m \in DOMAIN messages, include_invisible_to_bots \in BOOLEAN :
        \/ \E n \in 0 .. MaxChain + 1 :
              GetFullConversation(m, MaxLength(n), include_invisible_to_bots)
        \/ GetFullConversation(m, NoMaxLength, include_invisible_to_bots)

SpecHistory == InitHistory /\ [][NextHistory]_vars

\* the goes_after chain that ends at message m, oldest first
RECURSIVE ChainTo(_)
ChainTo(m) ==
    IF m = None THEN <<>> ELSE Append(ChainTo(messages[m].prev_msg_uuid), m)

\* sequence r holds items of sequence s, in the order of s
RECURSIVE IsSubSeq(_, _)
IsSubSeq(r, s) ==
    IF r = <<>> THEN TRUE
    ELSE IF s = <<>> THEN FALSE
    ELSE IF Head(r) = Head(s) THEN IsSubSeq(Tail(r), Tail(s))
    ELSE IsSubSeq(r, Tail(s))

\* what C26 says of the result of one call
FullConversationAsStated(call) ==
    LET m == call.args[1]
        max_length == call.args[2]
        include == call.args[3]
        result == call.ret
        chain == ChainTo(m)
        Shown(x) == include \/ ~messages[x].invisible_to_bots
        Pos(x) == CHOOSE i \in 1 .. Len(chain) : chain[i] = x
    IN  /\ IsSubSeq(result, chain)
        /\ Shown(m) => result # <<>> /\ result[Len(result)] = m
        /\ \A i \in 1 .. Len(result) : Shown(result[i])
        /\ result # <<>> =>
              \A j \in Pos(result[1]) .. Len(chain) :
                  Shown(chain[j]) => \E i \in 1 .. Len(result) : result[i] = chain[j]
        /\ max_length.given => Len(result) <= max_length.n

\* C26 (as stated): get_full_conversation returns messages of the goes_after
\* chain that ends at the concluding request, oldest first and the concluding
\* request last, no message that is invisible to bots unless those are asked
\* for, every visible message of the chain from the first one returned on, and
\* never more than max_length messages, for every max_length from 0 up.
C26_FullConversationBounded ==
    \A c \in 1 .. Len(calls) :
        calls[c].op = "get_full_conversation" => FullConversationAsStated(calls[c])

\* ------------------------------------------------------------ SpecLookup
\* The typed lookups, applied to what the store returns for the key:
\* _get_immutable_object is abstract and returns Optional[Any].  An object is
\* modelled by its class and its truth value: instances of the merged classes
\* and of UUID are true, a str or an int is true or not ('' and 0).
NoObject == [kind |-> "NoneType", truthy |-> FALSE]

StoredValues ==
    {[kind |-> k, truthy |-> TRUE] :
        k \in {"OriginalMessage", "ForwardedMessage", "MergedBot", "MergedUser",
               "UUID", "str", "int"}}
        \cup {[kind |-> k, truthy |-> FALSE] : k \in {"str", "int"}}
        \cup {NoObject}

\* the classes, as the sets of the classes of their instances
MergedMessage == {"OriginalMessage", "ForwardedMessage"}
MergedBot == {"MergedBot"}
UUID == {"UUID"}

\* the expected type of find_message, _get_bot and the channel index
ExpectedType(op) ==
    IF op = "find_message" THEN MergedMessage
    ELSE IF op = "_get_bot" THEN MergedBot
    ELSE UUID

isinstance(obj, expected_type) == obj.kind \in expected_type

\* what _assert_correct_obj_type_or_none raises, or None:
\* if obj and not isinstance(obj, expected_type): raise TypeError
_assert_correct_obj_type_or_none(obj, expected_type) ==
    IF obj.truthy /\ ~isinstance(obj, expected_type) THEN WrongTypeError ELSE None

\* _get_correct_object, called by lookup op, when the store returns obj
_get_correct_object(op, obj) ==
    /\ Len(calls) < MaxCalls
    /\ LET error == _assert_correct_obj_type_or_none(obj, ExpectedType(op))
       IN  IF error # None
           THEN Raise(op, <<obj>>, error)
           ELSE Return(op, <<obj>>, obj)
    /\ UNCHANGED <<storeVars, tasks, streams, error_wrappers, consumers,
                   bot_by_alias, channel_by_type_and_id, callers, ctxVars>>

NextLookup ==
    \E obj \in StoredValues :
        \/ _get_correct_object("find_message", obj)
        \/ _get_correct_object("_get_bot", obj)
        \/ _get_correct_object("find_or_create_user_channel", obj)

SpecLookup == Init /\ [][NextLookup]_vars

\* C29 (as stated): a typed lookup returns nothing or an object of the expected
\* kind, and fails with the type error whenever the store holds a value of
\* another kind under the key, whatever that value is.
C29_TypedLookupNeverReturnsOtherKind ==
    \A c \in 1 .. Len(calls) :
        LET obj == calls[c].args[1]
            expected_type == ExpectedType(calls[c].op)
        IN  /\ calls[c].err = None =>
                  \/ calls[c].ret = NoObject
                  \/ isinstance(calls[c].ret, expected_type)
            /\ (obj # NoObject /\ ~isinstance(obj, expected_type)) =>
                  calls[c].err = WrongTypeError

\* ---------------------------------------------------------------- C40
\* the items of kind "stream" on the queue and in the cursor of stream s
RelayedBy(s) ==
    {streams[s].queue[i].v : i \in {j \in 1 .. Len(streams[s].queue) :
                                       streams[s].queue[j].type = "stream"}}
        \cup (IF streams[s].cached # None THEN {streams[s].cached} ELSE {})

\* tasks t1 and t2 are turns of the same cache-enabled bot, triggered with plain
\* content that is equal, and both have prepared their request
EqualPlainContent(t1, t2) ==
    /\ t1 # t2
    /\ tasks[t1].bot = tasks[t2].bot
    /\ ~bots[tasks[t1].bot].no_cache
    /\ ~tasks[t1].request.is_msg
    /\ tasks[t1].request = tasks[t2].request
    /\ Len(tasks[t1].requests) = 1
    /\ Len(tasks[t2].requests) = 1

\* C40: two triggers of the same cache-enabled bot with equal plain content
\* never share a caching key: each creates an OriginalMessage of its own with a
\* fresh uuid, so the handler is executed once for each trigger and neither
\* stream relays the other, whatever rewrite_cache and the extra fields are.
C40_PlainContentNeverSharesKey ==
    \A t1, t2 \in Tasks :
        EqualPlainContent(t1, t2) =>
            /\ tasks[t1].requests # tasks[t2].requests
            /\ messages[tasks[t1].requests[1]].kind = "original"
            /\ messages[tasks[t1].requests[1]].original_message = tasks[t1].requests[1]
            /\ tasks[t1].caching_key # tasks[t2].caching_key
            /\ t2 \notin RelayedBy(t1)
            /\ tasks[t1].outcome # "relayed"
            /\ tasks[t1].pc = "done" => tasks[t1].handler_ran

\* two turns of the cache-enabled bot with the same plain content, the same
\* extra fields and rewrite_cache false have both run the handler to its end
C40_Witness ==
    \E t1, t2 \in Tasks :
        /\ EqualPlainContent(t1, t2)
        /\ tasks[t1].extra = tasks[t2].extra
        /\ ~tasks[t1].rewrite_cache
        /\ ~tasks[t2].rewrite_cache
        /\ tasks[t1].pc = "done"
        /\ tasks[t2].pc = "done"
        /\ tasks[t1].handler_ran
        /\ tasks[t2].handler_ran

\* ---------------------------------------------------------------- C33
\* get_ultimate_original_message: the forwards are followed to the
\* OriginalMessage
RECURSIVE get_ultimate_original_message(_)
get_ultimate_original_message(m) ==
    IF messages[m].kind = "forwarded"
    THEN get_ultimate_original_message(messages[m].original_message)
    ELSE m

\* tasks t1 and t2 are turns of the same cache-enabled bot, and their prepared
\* requests are forwards of the same OriginalMessage with equal extra fields
ForwardsOfSameOriginal(t1, t2) ==
    /\ tasks[t1].bot = tasks[t2].bot
    /\ ~bots[tasks[t1].bot].no_cache
    /\ Len(tasks[t1].requests) = 1
    /\ Len(tasks[t2].requests) = 1
    /\ messages[tasks[t1].requests[1]].kind = "forwarded"
    /\ messages[tasks[t2].requests[1]].kind = "forwarded"
    /\ get_ultimate_original_message(tasks[t1].requests[1])
          = get_ultimate_original_message(tasks[t2].requests[1])
    /\ messages[tasks[t1].requests[1]].extra_fields
          = messages[tasks[t2].requests[1]].extra_fields

\* C33 (as stated): the caching key names each request by its ultimate original
\* message: two triggers of the same cache-enabled bot whose requests are
\* forwards, at any depth, of the same OriginalMessage with equal extra fields
\* build the same caching key, and the second one is a cache hit.
C33_KeyByUltimateOriginal ==
    \A t1, t2 \in Tasks :
        ForwardsOfSameOriginal(t1, t2) =>
            /\ tasks[t1].caching_key = tasks[t2].caching_key
            /\ (t1 < t2 /\ tasks[t1].handler_ran /\ ~tasks[t2].rewrite_cache
                   /\ tasks[t2].pc = "done") =>
                  tasks[t2].outcome = "relayed"

\* ---------------------------------------------------------------- C32
\* task t has looked its caching key up, has read None and has not recorded
\* its stream yet
BetweenMissAndInsertion(t) == tasks[t].pc = "set_cache" /\ ~tasks[t].rewrite_cache

\* C32 (as stated): on a cache miss of a cache-enabled bot the check and the
\* insertion of the new stream under the caching key are one atomic step: the
\* lookup of another task for the same key never falls between the two, so no
\* two tasks are between the miss and the insertion for one key; and the
\* stream is in the cache before the first step of the handler.
C32_MissAndInsertionAtomic ==
    /\ \A t \in Tasks :
          (tasks[t].pc = "handler" /\ ~bots[tasks[t].bot].no_cache) =>
              tasks[t].caching_key \in DOMAIN bot_response_cache
    /\ \A t, u \in Tasks :
          (t # u /\ BetweenMissAndInsertion(t) /\ tasks[u].caching_key = tasks[t].caching_key) =>
              ~BetweenMissAndInsertion(u)

\* ---------------------------------------------------------------- C34
\* C34 (as stated): under concurrent create_next_message calls for one chat,
\* interleaved at the lookup and at the update of the pointer, the goes_after
\* chain never forks: no two messages go after the same message, and, when no
\* call is between the registration of its message and the update of the
\* pointer, the pointer designates a message that no message goes after.
C34_ChainNeverForks ==
    /\ \A m1, m2 \in DOMAIN messages :
          (m1 # m2 /\ messages[m1].prev_msg_uuid # None) =>
              messages[m1].prev_msg_uuid # messages[m2].prev_msg_uuid
    /\ (\A t \in Tasks : tasks[t].pc # "set_latest") =>
          \A key \in DOMAIN latest_message_in_chat :
              \A m \in DOMAIN messages :
                  messages[m].prev_msg_uuid # latest_message_in_chat[key]

\* ----------------------------------------------------------- SpecChannel
\* find_or_create_user_channel on a store whose accesses suspend: the calls
\* of several callers are interleaved at the lookup of the index, at
\* find_message, at the registration of the user, of the message and of the
\* index key.
Callers == 1 .. Len(callers)

\* the uuid4() of the i-th object the call of caller c creates
uuid4_of_caller(c, i) ==
    FirstFreshUuid + (MaxTasks + MaxNested) * (MaxYields + 1) + 2 * (c - 1) + i

\* a store that registers the index key over the value it holds
IndexKeyOverwritten(index, key) == FALSE

\* _register_immutable_object(key, channel_msg.uuid): if key in self._immutable_objects
IndexKeyTaken(index, key) == key \in DOMAIN index

\* the call begins: the key is made and the coroutine runs to the lookup
ChannelCall(channel_type, channel_id, user_display_name) ==
    /\ Len(callers) < MaxCallers
    /\ callers' = Append(callers,
           [args |-> <<channel_type, channel_id, user_display_name>>,
            key  |-> _generate_channel_key(channel_type, channel_id),
            pc   |-> "get_index",
            user |-> None,
            msg  |-> None,
            ret  |-> None,
            err  |-> None])
    /\ UNCHANGED <<storeVars, tasks, streams, error_wrappers, consumers,
                   bot_by_alias, channel_by_type_and_id, calls, ctxVars>>

\* channel_msg_uuid = await self._get_correct_object(key, UUID)
ChannelLookup(c) ==
    /\ callers[c].pc = "get_index"
    /\ LET channel_msg_uuid == Get(channel_by_type_and_id, callers[c].key)
       IN  callers' = [callers EXCEPT ![c] =
              IF channel_msg_uuid # None
              THEN [callers[c] EXCEPT !.msg = channel_msg_uuid, !.pc = "find_message"]
              ELSE [callers[c] EXCEPT !.pc = "create_user"]]
    /\ UNCHANGED <<storeVars, tasks, streams, error_wrappers, consumers,
                   bot_by_alias, channel_by_type_and_id, calls, ctxVars>>

\* channel_msg = await self.find_message(channel_msg_uuid), which is returned
\* when it is found
ChannelFind(c) ==
    /\ callers[c].pc = "find_message"
    /\ callers' = [callers EXCEPT ![c] =
          IF callers[c].msg \in DOMAIN messages
          THEN [callers[c] EXCEPT !.ret = callers[c].msg, !.pc = "done"]
          ELSE [callers[c] EXCEPT !.msg = None, !.pc = "create_user"]]
    /\ UNCHANGED <<storeVars, tasks, streams, error_wrappers, consumers,
                   bot_by_alias, channel_by_type_and_id, calls, ctxVars>>

\* user = await self.create_user(name=user_display_name)
ChannelCreateUser(c) ==
    /\ callers[c].pc = "create_user"
    /\ LET user == uuid4_of_caller(c, 0)
       IN  /\ users' = Put(users, user, [name |-> callers[c].args[3]])
           /\ callers' = [callers EXCEPT ![c].user = user, ![c].pc = "create_message"]
    /\ UNCHANGED <<bots, single_turn_handlers, messages, latest_message_in_chat,
                   bot_response_cache, default_user, default_msg_ctx, tasks, streams,
                   error_wrappers, consumers, bot_by_alias, channel_by_type_and_id,
                   calls, ctxVars>>

\* channel_msg = await self._create_message(...): the message of the channel is
\* registered under its uuid
ChannelCreateMessage(c) ==
    /\ callers[c].pc = "create_message"
    /\ LET msg == uuid4_of_caller(c, 1)
       IN  /\ messages' = Put(messages, msg,
                  [kind                |-> "original",
                   sender              |-> callers[c].user,
                   receiver            |-> callers[c].user,
                   still_thinking      |-> "False",
                   parent_ctx_msg_uuid |-> None,
                   requesting_msg_uuid |-> None,
                   prev_msg_uuid       |-> None,
                   invisible_to_bots   |-> FALSE,
                   original_message    |-> msg,
                   content             |-> None,
                   extra_fields        |-> ChannelFields(callers[c].args[1],
                                                         callers[c].args[2])])
           /\ callers' = [callers EXCEPT ![c].msg = msg, ![c].pc = "register_index"]
    /\ UNCHANGED <<bots, single_turn_handlers, users, latest_message_in_chat,
                   bot_response_cache, default_user, default_msg_ctx, tasks, streams,
                   error_wrappers, consumers, bot_by_alias, channel_by_type_and_id,
                   calls, ctxVars>>

\* await self._register_immutable_object(key, channel_msg.uuid): the key that is
\* taken is refused with a ValueError; else the message is returned
ChannelRegister(c) ==
    /\ callers[c].pc = "register_index"
    /\ IF IndexKeyTaken(channel_by_type_and_id, callers[c].key)
       THEN /\ callers' = [callers EXCEPT ![c].err = KeyExistsError, ![c].pc = "done"]
            /\ UNCHANGED channel_by_type_and_id
       ELSE /\ channel_by_type_and_id' =
                   Put(channel_by_type_and_id, callers[c].key, callers[c].msg)
            /\ callers' = [callers EXCEPT ![c].ret = callers[c].msg, ![c].pc = "done"]
    /\ UNCHANGED <<storeVars, tasks, streams, error_wrappers, consumers,
                   bot_by_alias, calls, ctxVars>>

NextChannel ==
    \/ \E channel_type \in {1, 2}, user_display_name \in {AliceName, OtherName} :
          ChannelCall(channel_type, 1, user_display_name)
    \/ \E c \in Callers : ChannelLookup(c)
    \/ \E c \in Callers : ChannelFind(c)
    \/ \E c \in Callers : ChannelCreateUser(c)
    \/ \E c \in Callers : ChannelCreateMessage(c)
    \/ \E c \in Callers : ChannelRegister(c)

SpecChannel == Init /\ [][NextChannel]_vars

\* C37: in any interleaving of concurrent find_or_create_user_channel calls
\* for one (channel_type, channel_id), all the calls that return a result
\* return the same message, which is the one the index holds for the pair, and
\* the index of a pair, once set, never designates another message.
C37_ConcurrentChannelCallsAgree ==
    /\ [](\A c, d \in Callers :
             (callers[c].pc = "done" /\ callers[c].err = None) =>
                 /\ Get(channel_by_type_and_id, callers[c].key) = callers[c].ret
                 /\ callers[c].ret \in DOMAIN messages
                 /\ (callers[d].pc = "done" /\ callers[d].err = None
                        /\ callers[d].key = callers[c].key) =>
                       callers[d].ret = callers[c].ret)
    /\ [][WriteOnce(channel_by_type_and_id, channel_by_type_and_id')]_vars

\* two calls for a new pair have both missed the index and created a message
\* each: one has set the index and returned its message, the other was refused;
\* a third call has found the index set and returned the same message
C37_Witness ==
    \E c, d, e \in Callers :
        /\ callers[c].key = callers[d].key
        /\ callers[e].key = callers[c].key
        /\ callers[c].pc = "done"
        /\ callers[d].pc = "done"
        /\ callers[e].pc = "done"
        /\ callers[c].ret = callers[c].msg
        /\ callers[c].user # None
        /\ callers[d].err = KeyExistsError
        /\ callers[d].msg \in DOMAIN messages
        /\ callers[e].user = None
        /\ callers[e].ret = callers[c].ret

\* ---------------------------------------------------------- SpecHandlers
\* bots are created with and without a handler, and handlers are given to the
\* bots that exist with the decorator: bot.single_turn(handler), bot(handler)
single_turn(bot, handler) ==
    /\ Len(calls) < MaxCalls
    /\ single_turn_handlers' =
           register_local_single_turn_handler(single_turn_handlers, bot, handler)
    /\ Return("single_turn", <<bot, handler>>, handler)
    /\ UNCHANGED <<bots, users, messages, latest_message_in_chat, bot_response_cache,
                   default_user, default_msg_ctx, tasks, streams, error_wrappers,
                   consumers, bot_by_alias, channel_by_type_and_id, callers, ctxVars>>

\* find_bot(alias): the bot of the alias, None where the code raises
\* BotNotFoundError
find_bot(alias) == Get(bot_by_alias, alias)

NextHandlers ==
    \/ \E alias \in {CacheBot, NewAlias, OtherAlias}, name \in {None, OtherName},
          no_cache \in BOOLEAN, handler \in {None, NewHandler, OtherHandler} :
          create_bot_async(alias, name, no_cache, handler)
    \/ \E bot \in DOMAIN bots, handler \in {NewHandler, OtherHandler} :
          single_turn(bot, handler)

SpecHandlers == Init /\ [][NextHandlers]_vars

\* the calls that have registered a handler for bot b
Registrations(b) ==
    {i \in 1 .. Len(calls) :
        /\ calls[i].err = None
        /\ \/ calls[i].op = "create_bot_async" /\ calls[i].args[4] # None
                 /\ calls[i].ret = b
           \/ calls[i].op = "single_turn" /\ calls[i].args[1] = b}

\* the handler call i has registered
HandlerOf(i) ==
    IF calls[i].op = "create_bot_async" THEN calls[i].args[4] ELSE calls[i].args[2]

\* C31: after any sequence of successful creations of bots with a handler and
\* of registrations with the decorator, the handler table has one entry for
\* each bot that was given a handler, under the uuid of the bot, and it holds
\* the handler the bot was given last; find_bot of the alias returns the bot
\* the handler was registered for; a registration for one bot leaves the
\* entries of all other bots as they were.
C31_HandlerTableOneEntryPerBot ==
    /\ [](/\ DOMAIN single_turn_handlers \subseteq DOMAIN bots
          /\ \A b \in DOMAIN bots :
                IF Registrations(b) = {}
                THEN Get(single_turn_handlers, b) =
                         (IF b \in {CacheBot, NoCacheBot} THEN b ELSE None)
                ELSE /\ b \in DOMAIN single_turn_handlers
                     /\ single_turn_handlers[b] = HandlerOf(Last(Registrations(b)))
          /\ \A i \in 1 .. Len(calls) :
                (calls[i].op = "create_bot_async" /\ calls[i].err = None) =>
                    /\ find_bot(calls[i].args[1]) = calls[i].ret
                    /\ bots[calls[i].ret].alias = calls[i].args[1])
    /\ [][\A b \in DOMAIN single_turn_handlers :
             (\/ Called("single_turn") /\ TheCall.args[1] # b
              \/ Called("create_bot_async") /\ TheCall.ret # b) =>
                 /\ b \in DOMAIN single_turn_handlers'
                 /\ single_turn_handlers'[b] = single_turn_handlers[b]]_vars

\* a bot was created with one handler and was then given another one with the
\* decorator: the table holds the second under the uuid of the bot, beside the
\* entries of the other bots
C31_Witness ==
    /\ Len(calls) = 2
    /\ calls[1].op = "create_bot_async"
    /\ calls[1].err = None
    /\ calls[1].args[4] = NewHandler
    /\ calls[2].op = "single_turn"
    /\ calls[2].args = <<calls[1].ret, OtherHandler>>
    /\ single_turn_handlers[calls[1].ret] = OtherHandler
    /\ find_bot(NewAlias) = calls[1].ret
    /\ single_turn_handlers[CacheBot] = CacheBot

\* ----------------------------------------------------------- SpecPrepare
\* Turns on the in-memory store: the bot without a cache is triggered with new
\* content and yields responses; the cache-enabled bot is triggered with the
\* stream of such a turn, given as the request or as the one element of
\* requests.
NextPrepare ==
    \/ \E t \in Tasks : StoreStep(t)
    \/ Quiet /\ trigger_bot(NoCacheBot, PlainContent(1), NoRequest, Alice, AliceChannel,
                            FALSE, {})
    \/ Quiet /\ \E s \in Tasks :
                   /\ tasks[s].bot = NoCacheBot
                   /\ \/ trigger_bot(CacheBot, StreamContent(s), NoRequest, Alice,
                                     AliceChannel, FALSE, {})
                      \/ trigger_bot(CacheBot, NoRequest, StreamContent(s), Alice,
                                     AliceChannel, FALSE, {})
    \/ Quiet /\ \E t \in Tasks : TaskStart(t)
    \/ Quiet /\ \E t \in Tasks : tasks[t].bot = NoCacheBot /\ yield_interim_response(t)
    \/ Quiet /\ \E t \in Tasks : tasks[t].bot = NoCacheBot /\ yield_final_response(t)
    \/ Quiet /\ \E t \in Tasks : HandlerReturn(t)

SpecPrepare == Init /\ [][NextPrepare]_vars

\* the stream that task t was given as its request or as an element of requests
GivenStream(t) ==
    IF IsBotResponses(tasks[t].given_request) THEN tasks[t].given_request.stream
    ELSE IF IsBotResponses(tasks[t].given_requests) THEN tasks[t].given_requests.stream
    ELSE None

\* context.requests of task t has been set
RequestsPrepared(t) == tasks[t].pc \in {"get_cache", "set_cache", "handler"} \/ (tasks[t].pc = "done" /\ tasks[t].outcome # "failed")

\* C36 (as stated): when a stream of another bot is given to trigger_bot as the
\* request or as an element of requests, every message of the stream, once the
\* turn that produces it has returned, has become
\* one prepared request, in the order of the stream: context.requests holds one
\* forwarded message for each response of the stream and no request whose
\* content is the stream object.
C36_StreamRequestsExpanded ==
    \A t \in Tasks :
        (GivenStream(t) # None /\ RequestsPrepared(t)
            /\ tasks[GivenStream(t)].pc = "done") =>
            LET yielded == tasks[GivenStream(t)].yielded
            IN  /\ Len(tasks[t].requests) = Len(yielded)
                /\ \A i \in 1 .. Len(tasks[t].requests) :
                      /\ messages[tasks[t].requests[i]].kind = "forwarded"
                      /\ messages[tasks[t].requests[i]].original_message = yielded[i]
                      /\ messages[tasks[t].requests[i]].content
                             # StreamObject(GivenStream(t))

\* --------------------------------------------------- references (SpecChain)
\* the messages that message r, as it is built, refers to: its parent context,
\* the message it responds to and the message it goes after
References(r) ==
    {r.parent_ctx_msg_uuid, r.requesting_msg_uuid, r.prev_msg_uuid} \ {None}

\* the backward walk of get_conversation_history from message m comes to its
\* end within n steps
RECURSIVE WalkEnds(_, _)
WalkEnds(m, n) ==
    IF m = None THEN TRUE
    ELSE IF n = 0 \/ m \notin DOMAIN messages THEN FALSE
    ELSE WalkEnds(messages[m].prev_msg_uuid, n - 1)

\* C38: in every reachable state each parent-context, responds-to and
\* goes-after reference of a registered message that is not empty designates a
\* message of the store, one that was registered before the message itself was
\* (the message that is registered in a step refers to messages the store held
\* before the step, and no registered message changes); so no goes_after chain
\* has a cycle, and the backward walk from any message ends within as many
\* steps as there are messages.
C38_ReferencesDesignateEarlierMessages ==
    /\ [](\A m \in DOMAIN messages :
             /\ References(messages[m]) \subseteq DOMAIN messages \ {m}
             /\ WalkEnds(m, Cardinality(DOMAIN messages)))
    /\ [][/\ \A m \in DOMAIN messages :
                m \in DOMAIN messages' /\ messages'[m] = messages[m]
          /\ \A m \in DOMAIN messages' \ DOMAIN messages :
                References(messages'[m]) \subseteq DOMAIN messages]_vars

\* a response is registered that has a parent context, responds to a request
\* and goes after an earlier response
C38_Witness ==
    \E m \in DOMAIN messages :
        /\ messages[m].parent_ctx_msg_uuid # None
        /\ messages[m].requesting_msg_uuid # None
        /\ messages[m].prev_msg_uuid # None
        /\ Cardinality(References(messages[m])) = 3

\* ----------------------------------------------------------- SpecRewrite
\* Turns of the cache-enabled bot on the in-memory store, all with Alice's
\* channel message forwarded and so with one caching key, with rewrite_cache
\* given or not, and the callers that iterate their streams.  A turn is
\* triggered when the turns before it have started, a handler yields one
\* response and a stream is iterated by one caller.
NextRewrite ==
    \/ \E t \in Tasks : StoreStep(t)
    \/ Quiet /\ Len(tasks) < MaxTasks + MaxNested
             /\ (\A t \in Tasks : tasks[t].pc # "start")
             /\ \E rewrite_cache \in BOOLEAN :
                   trigger_bot_in(MainTask, CacheBot, MessageContent(AliceChannel),
                                  NoRequest, Alice, AliceChannel, rewrite_cache, {})
    \/ Quiet /\ \E t \in Tasks : TaskStart(t)
    \/ Quiet /\ \E t \in Tasks : tasks[t].yielded = <<>> /\ yield_final_response(t)
    \/ Quiet /\ \E t \in Tasks : HandlerReturn(t)
    \/ Quiet /\ \E s \in Streams : ConsumersOf(s) = {} /\ aiter(s)
    \/ Quiet /\ \E c \in Consumers : ConsumerStep(c)

SpecRewrite == Init /\ [][NextRewrite]_vars

\* task t records its stream in this step
Records(t) == tasks[t].pc = "set_cache" /\ tasks'[t].pc = "handler"

\* the lookup of task t is answered with a recorded stream in this step
Hits(t) == tasks[t].pc = "get_cache" /\ tasks'[t].outcome = "relayed"

\* C39: a trigger of a cache-enabled bot with rewrite_cache true does not look
\* the cache up and replaces the entry of its key with its own stream; the
\* entry of a key changes in no other way than by a turn that records its
\* stream, so that it is the stream recorded last; a later trigger with the key
\* and rewrite_cache false relays the stream the entry holds then, the newest,
\* and keeps relaying it; the callers of every stream, an older one that is no
\* longer in the cache included, go on receiving the messages of the turn that
\* produces their stream, in order, and what they have received stays.
C39_RewriteReplacesEntry ==
    /\ [](\A t \in Tasks :
             /\ (tasks[t].rewrite_cache /\ tasks[t].pc \in {"handler", "done"}) =>
                   tasks[t].handler_ran /\ tasks[t].outcome # "relayed"
             /\ \A c \in ConsumersOf(t) :
                   IsPrefix(consumers[c].received, tasks[ProducerOf(t)].yielded))
    /\ [][/\ \A t \in Tasks :
                /\ Records(t) =>
                      /\ tasks[t].caching_key \in DOMAIN bot_response_cache'
                      /\ bot_response_cache'[tasks[t].caching_key] = t
                /\ Hits(t) =>
                      /\ ~tasks[t].rewrite_cache
                      /\ streams'[t].queue =
                            <<StreamItem(bot_response_cache[tasks[t].caching_key]),
                              EndItem>>
                /\ tasks[t].outcome = "relayed" =>
                      /\ tasks'[t].outcome = "relayed"
                      /\ CachedStreamOf(t)' = CachedStreamOf(t)
          /\ \A k \in DOMAIN bot_response_cache' :
                (k \notin DOMAIN bot_response_cache
                    \/ bot_response_cache'[k] # bot_response_cache[k]) =>
                   \E t \in Tasks : Records(t) /\ tasks[t].caching_key = k
          /\ \A c \in Consumers :
                IsPrefix(consumers[c].received, consumers'[c].received)]_vars

\* the stream of the first turn was replaced in the cache by the stream of a
\* turn with rewrite_cache, a third turn relays the newer one, and a caller of
\* the first, older stream has received a message of it after that
C39_Witness ==
    \E t, u, v \in Tasks, c \in Consumers :
        /\ t < u
        /\ ~tasks[t].rewrite_cache
        /\ tasks[t].handler_ran
        /\ tasks[u].rewrite_cache
        /\ tasks[u].handler_ran
        /\ tasks[u].caching_key = tasks[t].caching_key
        /\ bot_response_cache[tasks[t].caching_key] = u
        /\ tasks[v].outcome = "relayed"
        /\ CachedStreamOf(v) = u
        /\ consumers[c].stream = t
        /\ consumers[c].received # <<>>
        /\ consumers[c].received = tasks[t].yielded
        /\ tasks[u].yielded # <<>>

\* -------------------------------------------------------------- SpecSelf
\* Handlers of the cache-enabled bot, on the in-memory store, that trigger
\* their own bot, with their own request forwarded or with new content, and
\* await the stream of the nested turn to its end before they return.  The
\* event loop runs every coroutine that can run: a turn that is scheduled
\* starts, a handler goes on to await the stream it has triggered, the await
\* goes on while the stream has something to give, and a handler returns when
\* what it awaits has ended.
Awaited(h) == {s \in Tasks : tasks[s].caller = h}

\* the streams handler h awaits have been iterated to their end
AwaitedDone(h) ==
    \A s \in Awaited(h) :
        \E c \in ConsumersOf(s) : consumers[c].last \in {"stop", "error"}

\* the handler of turn h triggers its own bot
TriggersItself(h) ==
    /\ tasks[h].pc = "handler"
    /\ tasks[h].caller = MainTask
    /\ Awaited(h) = {}
    /\ \E request \in {MessageContent(concluding_request(h)), PlainContent(2)} :
          trigger_bot_from_handler(h, tasks[h].bot, request, NoRequest, None, None,
                                   FALSE, {})

\* the handler that has triggered stream s awaits its get_all_responses()
AwaitsAll(s) ==
    /\ tasks[s].caller # MainTask
    /\ tasks[tasks[s].caller].pc = "handler"
    /\ ConsumersOf(s) = {}
    /\ get_all_responses(s)

\* the handler returns, after the streams it awaits
ReturnsAfterAwaited(h) == AwaitedDone(h) /\ HandlerReturn(h)

NextSelf ==
    \/ \E t \in Tasks : StoreStep(t)
    \/ Quiet /\ trigger_bot(CacheBot, PlainContent(1), NoRequest, Alice, AliceChannel,
                            FALSE, {})
    \/ Quiet /\ \E h \in Tasks : TriggersItself(h)
    \/ Quiet /\ \E t \in Tasks : TaskStart(t)
    \/ Quiet /\ \E s \in Tasks : AwaitsAll(s)
    \/ Quiet /\ \E c \in Consumers : ConsumerStep(c)
    \/ Quiet /\ \E h \in Tasks : ReturnsAfterAwaited(h)

\* the steps the event loop takes in the end
LoopRuns ==
    \/ \E t \in Tasks : StoreStep(t)
    \/ Quiet /\ \E t \in Tasks : TaskStart(t)
    \/ Quiet /\ \E s \in Tasks : AwaitsAll(s)
    \/ Quiet /\ \E c \in Consumers : ConsumerStep(c)
    \/ Quiet /\ \E h \in Tasks : ReturnsAfterAwaited(h)

SpecSelf == Init /\ [][NextSelf]_vars /\ WF_vars(LoopRuns)

\* C35 (as stated): every stream that trigger_bot has returned reaches its end,
\* the end-of-responses sentinel after the responses or after the error, when
\* every handler returns once the streams it awaits have ended; so it is when
\* a handler of a cache-enabled bot triggers its own bot with its own request
\* forwarded and awaits the nested stream to its end.
C35_EveryStreamEnds ==
    \A t \in 1 .. MaxTasks + MaxNested :
        (t \in Tasks) ~> (t \in Tasks /\ SentinelPut(t))

====
